---------------------------- MODULE Spec2Model ----------------------------
(***************************************************************************)
(* AutoHelm: a model of the Helm firmware's signal replication engine      *)
(* (DeviceRFController) and of its navigation controller                   *)
(* (NavigationManager).                                                    *)
(*                                                                         *)
(* Two specifications share the module's variables:                        *)
(*   SpecRF   the radio controller: begin(), the diagnostics that touch    *)
(*            the radio, and transmitRight/transmitLeft, which are         *)
(*            followed pulse by pulse;                                     *)
(*   SpecNav  the navigation controller: setTarget, setNavigationEnabled,  *)
(*            clearTarget and update.                                      *)
(* Each leaves the other component's variables alone.                      *)
(*                                                                         *)
(* 64-bit integers do not fit the checker's integers, so a uint64_t        *)
(* constant is the sequence of its hexadecimal digits as written in the    *)
(* source, most significant digit first; shifts and masks are computed on  *)
(* the digits.                                                             *)
(***************************************************************************)
EXTENDS Integers, Sequences, FiniteSets, TLC

(***************************************************************************)
(* Bounds of the model.                                                    *)
(***************************************************************************)
\* transmitRight/transmitLeft are called with repeatCount in 0..MaxRepeat
MaxRepeat == 2

(***************************************************************************)
(* DeviceRFController.h: timing constants and the control codes.           *)
(***************************************************************************)
SHORT_PULSE_HIGH_US == 50
SHORT_PULSE_LOW_US == 52
LONG_PULSE_HIGH_US == 102
LONG_PULSE_LOW_US == 52
SYNC_PULSE_HIGH_US == 170
SYNC_PULSE_LOW_US == 114
FRAME_GAP_US == 114

\* 0x8000576d76ULL
RIGHT_CODE_HIGH == <<8, 0, 0, 0, 5, 7, 6, 13, 7, 6>>
\* 0xf7e077723ba90ULL
RIGHT_CODE_LOW == <<15, 7, 14, 0, 7, 7, 7, 2, 3, 11, 10, 9, 0>>
\* 0x8000576d76ULL
LEFT_CODE_HIGH == <<8, 0, 0, 0, 5, 7, 6, 13, 7, 6>>
\* the constant with one digit mistyped (0xf7e077727ea84ULL)
LEFT_CODE_LOW_Typo == <<15, 7, 14, 0, 7, 7, 7, 2, 7, 14, 10, 8, 4>>
\* 0xf7e077723ea84ULL
LEFT_CODE_LOW == <<15, 7, 14, 0, 7, 7, 7, 2, 3, 14, 10, 8, 4>>

\* the version register value begin() expects (0x24)
EXPECTED_VERSION == 36
\* first value of the loop variable in "for (int8_t bit = 39; ...)"
HIGH_BITS_START == 39
\* first value of the loop variable in "for (int8_t bit = 49; ...)"
LOW_BITS_START == 49

\* values the version register may read back: the chip, a dead bus, a floating bus
VersionReads == {EXPECTED_VERSION, 0, 255}

Commands == {"RIGHT", "LEFT"}

\* The repository holds four radio controllers; a sketch is built with one of
\* them: Helm's DeviceRFController, the WatersnakeRFController of the
\* GPS_directions sketch, Helm's burst-pattern RfController, and the
\* WatersnakeRFController of the transmitter_test sketch.
Drivers == {"DeviceRFController", "WatersnakeRFController", "RfController",
            "transmitter_test"}

VARIABLES
    \* ---- the radio controller
    driver,         \* which controller class the sketch is built with
    initialized,    \* the controller's member `initialized`
    opMode,         \* the radio's operating mode (REG_OPMODE): "standby", "tx"
    dataPin,        \* level driven on RF_DATA_PIN: "LOW" or "HIGH"
    pc,             \* where the single thread of control is
    codeHigh,       \* transmit90BitCommand's parameter codeHigh
    codeLow,        \* transmit90BitCommand's parameter codeLow
    repeatCount,    \* transmit90BitCommand's parameter repeatCount
    i,              \* the frame loop's counter
    bit,            \* the bit loops' counter
    emitted,        \* holds <<level, microseconds>> made by the current/last transmit call
    modeReady,      \* the radio presents the ModeReady bit of REG_IRQFLAGS1 as set;
                    \* read only by configureDirectMode's wait loop
    \* ---- history of the radio controller (not program state)
    lastBegin,      \* result of the latest begin(): "none", "ok", "fail"
    everOk,         \* some begin() has returned success
    call,           \* the latest transmit call: [cmd, n, ran, mode]
    ref,            \* an earlier completed transmit call kept for comparison
    \* ---- NavigationManager
    mode,               \* state.mode: "IDLE", "NAVIGATING", "ARRIVED"
    targetLatitude,     \* state.targetLatitude
    targetLongitude,    \* state.targetLongitude
    distanceToTarget,   \* state.distanceToTarget
    bearingToTarget,    \* state.bearingToTarget
    relativeAngle,      \* state.relativeAngle
    navigationEnabled,  \* NavigationManager::navigationEnabled
    lastGpsFix,         \* NavigationManager::lastGpsFix
    lastUpdateTime,     \* NavigationManager::lastUpdateTime
    now,                \* what millis() returns
    \* ---- history of the navigation controller (not program state)
    lastOp,             \* the latest operation called on the controller
    prevFixValid,       \* the latest update() was given a valid fix
    freshFix,           \* the lastGpsFix of a new controller that was given
                        \* the calls made since the latest clearTarget()
    fixLost,            \* update() auto-disabled navigation on a lost fix and
                        \* has seen no valid fix since
    upd,                \* the update() that made this state, if one did
    \* ---- the correction loop of the sketch
    lastCorrectionTime, \* NavigationState::lastCorrectionTime
    correction,         \* what the latest correction tick did (history)
    \* ---- a call of a NavigationUtils function
    fn,                 \* the function called
    args,               \* its arguments
    loopAngle,          \* normalizeAngle's variable `angle`, a float
    upc,                \* where the call is
    result,             \* what it returned
    \* ---- the Bluetooth controller
    bleInitialized,     \* BluetoothController::initialized
    connected,          \* BluetoothController::connected
    advertising,        \* the radio advertises
    effectiveMTU,       \* BluetoothController::effectiveMTU
    negotiatedMTU,      \* BluetoothController::negotiatedMTU
    navigationCallback, \* BluetoothController::navigationCallback is set
    waypointCallback,   \* BluetoothController::waypointCallback is set
    blePc,              \* where the thread is: "idle", or "fragments" inside
                        \* sendFragmentedMessage's loop
    totalFragments,     \* sendFragmentedMessage's totalFragments, a uint8_t
    seq,                \* sendFragmentedMessage's loop counter, a uint8_t
    lastStatusJson,     \* broadcastStatus's static lastStatusJson
    \* ---- history of the Bluetooth controller (not program state)
    sent,               \* the current/latest sendStatus call
    statusWrites,       \* what was written to the status characteristic since
                        \* that call began
    handled,            \* what the poll of the update() that made this state did
    calibrationWrite,   \* what the sendCalibrationData() that made this state
                        \* wrote to the calibration data characteristic
    lastBle             \* the latest operation called on the controller

rfVars == <<driver, initialized, opMode, dataPin, pc, codeHigh, codeLow, repeatCount, i, bit,
            emitted, modeReady, lastBegin, everOk, call, ref>>

navVars == <<mode, targetLatitude, targetLongitude, distanceToTarget, bearingToTarget,
             relativeAngle, navigationEnabled, lastGpsFix, lastUpdateTime, now, lastOp,
             prevFixValid, freshFix, fixLost, upd>>

helmVars == <<lastCorrectionTime, correction>>

utilVars == <<fn, args, loopAngle, upc, result>>

\* what an operation of the radio controller leaves alone, and what an
\* operation of the navigation controller leaves alone
bleVars == <<bleInitialized, connected, advertising, effectiveMTU, negotiatedMTU,
             navigationCallback, waypointCallback, blePc, totalFragments, seq,
             lastStatusJson, sent, statusWrites, handled, calibrationWrite, lastBle>>

nonRfVars == <<navVars, helmVars, utilVars, bleVars>>
nonNavVars == <<rfVars, helmVars, utilVars, bleVars>>
nonBleVars == <<rfVars, navVars, helmVars, utilVars>>

vars == <<rfVars, navVars, helmVars, utilVars, bleVars>>

NoCall == [cmd |-> "none", n |-> 0, ran |-> FALSE, mode |-> "none"]
NoRef == [cmd |-> "none", n |-> 0, mode |-> "none", signal |-> <<>>]

\* upd when the latest operation was not update(): the fix quality given, the
\* branch update() took, and the mode and the enable flag it started from
NoUpdate == [quality |-> <<FALSE, 0, 0>>, branch |-> "none", from |-> "IDLE", was |-> FALSE]

(***************************************************************************)
(* uint64_t arithmetic on hexadecimal digit sequences.                     *)
(***************************************************************************)
\* 2^k for k in 0..3
Pow2(k) == IF k = 0 THEN 1 ELSE IF k = 1 THEN 2 ELSE IF k = 2 THEN 4 ELSE 8

\* bit number b (0 = least significant) of the uint64_t value written as `code`
DigitBit(code, b) ==
    LET idx == Len(code) - (b \div 4)
    IN  IF idx < 1 THEN 0 ELSE (code[idx] \div Pow2(b % 4)) % 2

\* a 64-bit shift whose mask was built from a 32-bit one (1UL << b)
ShiftBit_Narrow(code, b) == IF b >= 32 THEN 0 ELSE DigitBit(code, b)

\* (code >> b) & 1
ShiftBit(code, b) == DigitBit(code, b)

(***************************************************************************)
(* sendBit, sendSyncPulse and the inter-frame gap: the holds they make.    *)
(***************************************************************************)
\* the timing of the GPS_directions sketch: the LOW time mirrors the HIGH time
SendBit_Mirrored(bitValue) ==
    IF bitValue = 1
    THEN << <<"HIGH", LONG_PULSE_HIGH_US>>, <<"LOW", SHORT_PULSE_HIGH_US>> >>
    ELSE << <<"HIGH", SHORT_PULSE_HIGH_US>>, <<"LOW", LONG_PULSE_HIGH_US>> >>

SendBit(bitValue) ==
    IF bitValue = 1
    THEN << <<"HIGH", LONG_PULSE_HIGH_US>>, <<"LOW", LONG_PULSE_LOW_US>> >>
    ELSE << <<"HIGH", SHORT_PULSE_HIGH_US>>, <<"LOW", SHORT_PULSE_LOW_US>> >>

SendSyncPulse == << <<"HIGH", SYNC_PULSE_HIGH_US>>, <<"LOW", SYNC_PULSE_LOW_US>> >>

\* a gap only between frames, none after the last one
InterFrameGap_BetweenOnly == IF i < repeatCount - 1 THEN << <<"LOW", FRAME_GAP_US>> >> ELSE <<>>

InterFrameGap == << <<"LOW", FRAME_GAP_US>> >>

CodeHighOf(cmd) == IF cmd = "RIGHT" THEN RIGHT_CODE_HIGH ELSE LEFT_CODE_HIGH
CodeLowOf(cmd) == IF cmd = "RIGHT" THEN RIGHT_CODE_LOW ELSE LEFT_CODE_LOW

(***************************************************************************)
(* Initial state: DeviceRFController::DeviceRFController().                *)
(***************************************************************************)
InitRF ==
    /\ driver \in Drivers
    /\ initialized = FALSE
    /\ opMode = "standby"
    /\ dataPin = "LOW"
    /\ pc = "idle"
    /\ codeHigh = <<>>
    /\ codeLow = <<>>
    /\ repeatCount = 0
    /\ i = 0
    /\ bit = 0
    /\ emitted = <<>>
    /\ modeReady = FALSE
    /\ lastBegin = "none"
    /\ everOk = FALSE
    /\ call = NoCall
    /\ ref = NoRef

(***************************************************************************)
(* begin().  The hardware reset puts the radio back in standby.  A wrong   *)
(* version or a failed driver initialisation returns false and leaves      *)
(* `initialized` as it was.  Otherwise configureRadio() and                *)
(* configureDirectMode() run: data pin LOW, radio in transmit mode, and    *)
(* the thread waits for the mode-ready flag.                               *)
(***************************************************************************)
Begin(version, driverOk) ==
    /\ driver = "DeviceRFController"
    /\ pc = "idle"
    /\ IF version # EXPECTED_VERSION \/ ~driverOk
       THEN /\ opMode' = "standby"
            /\ lastBegin' = "fail"
            /\ UNCHANGED <<initialized, dataPin, pc, everOk>>
       ELSE /\ opMode' = "tx"
            /\ dataPin' = "LOW"
            /\ pc' = "waitready"
            /\ UNCHANGED <<initialized, lastBegin, everOk>>
    /\ modeReady' = FALSE
    /\ UNCHANGED <<codeHigh, codeLow, repeatCount, i, bit, emitted, call, ref>>
    /\ UNCHANGED <<driver, nonRfVars>>

\* the radio has reached the mode that configureDirectMode() asked for and
\* sets the ModeReady bit; nothing obliges it to
RadioReady ==
    /\ pc = "waitready"
    /\ ~modeReady
    /\ modeReady' = TRUE
    /\ UNCHANGED <<initialized, opMode, dataPin, pc, codeHigh, codeLow, repeatCount, i, bit,
                   emitted, lastBegin, everOk, call, ref>>
    /\ UNCHANGED <<driver, nonRfVars>>

\* configureDirectMode: "while ((readReg(REG_IRQFLAGS1) & RF_IRQFLAGS1_MODEREADY)
\* == 0x00);" reads the flag set; a read of the flag clear changes nothing.
\* Then validateTransmission() toggles the pin, initialized = true, begin()
\* returns true
BeginReady ==
    /\ pc = "waitready"
    /\ modeReady
    /\ dataPin' = "LOW"
    /\ initialized' = TRUE
    /\ lastBegin' = "ok"
    /\ everOk' = TRUE
    /\ pc' = "idle"
    /\ UNCHANGED <<opMode, codeHigh, codeLow, repeatCount, i, bit, emitted, call, ref>>
    /\ UNCHANGED <<driver, modeReady, nonRfVars>>

(***************************************************************************)
(* testContinuousCarrier(): carrier on for five seconds, then the radio    *)
(* is written back to standby (0x04).  It does not look at `initialized`.  *)
(***************************************************************************)
TestContinuousCarrier ==
    /\ driver = "DeviceRFController"
    /\ pc = "idle"
    /\ opMode' = "standby"
    /\ dataPin' = "LOW"
    /\ UNCHANGED <<initialized, pc, codeHigh, codeLow, repeatCount, i, bit, emitted,
                   lastBegin, everOk, call, ref>>
    /\ UNCHANGED <<driver, modeReady, nonRfVars>>

(***************************************************************************)
(* transmitRight(n) / transmitLeft(n): refuse when not initialized, else   *)
(* enter transmit90BitCommand.                                             *)
(***************************************************************************)
\* a transmit that does not look at `initialized`
CanTransmit_Always == TRUE

CanTransmit == initialized

\* the frame loop's counter left at its last value instead of starting at 0
FrameLoopStart_Stale == i

FrameLoopStart == 0

Transmit(cmd, n) ==
    /\ driver = "DeviceRFController"
    /\ pc = "idle"
    /\ emitted' = <<>>
    /\ IF ~CanTransmit
       THEN /\ call' = [cmd |-> cmd, n |-> n, ran |-> FALSE, mode |-> opMode]
            /\ UNCHANGED <<pc, codeHigh, codeLow, repeatCount, i, bit>>
       ELSE /\ call' = [cmd |-> cmd, n |-> n, ran |-> TRUE, mode |-> opMode]
            /\ codeHigh' = CodeHighOf(cmd)
            /\ codeLow' = CodeLowOf(cmd)
            /\ repeatCount' = n
            /\ i' = FrameLoopStart
            /\ pc' = IF FrameLoopStart < n THEN "sync" ELSE "tail"
            /\ UNCHANGED bit
    /\ UNCHANGED <<initialized, opMode, dataPin, lastBegin, everOk, ref>>
    /\ UNCHANGED <<driver, modeReady, nonRfVars>>

TransmitRight(n) == Transmit("RIGHT", n)

TransmitLeft(n) == Transmit("LEFT", n)

(***************************************************************************)
(* transmit90BitCommand, one step per pulse.                               *)
(***************************************************************************)
TxSync ==
    /\ pc = "sync"
    /\ emitted' = emitted \o SendSyncPulse
    /\ dataPin' = "LOW"
    /\ bit' = HIGH_BITS_START
    /\ pc' = "high"
    /\ UNCHANGED <<initialized, opMode, codeHigh, codeLow, repeatCount, i,
                   lastBegin, everOk, call, ref>>
    /\ UNCHANGED <<driver, modeReady, nonRfVars>>

TxHighBit ==
    /\ pc = "high"
    /\ emitted' = emitted \o SendBit(ShiftBit(codeHigh, bit))
    /\ dataPin' = "LOW"
    /\ IF bit > 0
       THEN bit' = bit - 1 /\ pc' = "high"
       ELSE bit' = LOW_BITS_START /\ pc' = "low"
    /\ UNCHANGED <<initialized, opMode, codeHigh, codeLow, repeatCount, i,
                   lastBegin, everOk, call, ref>>
    /\ UNCHANGED <<driver, modeReady, nonRfVars>>

TxLowBit ==
    /\ pc = "low"
    /\ emitted' = emitted \o SendBit(ShiftBit(codeLow, bit))
    /\ dataPin' = "LOW"
    /\ IF bit > 0
       THEN bit' = bit - 1 /\ pc' = "low"
       ELSE bit' = bit /\ pc' = "gap"
    /\ UNCHANGED <<initialized, opMode, codeHigh, codeLow, repeatCount, i,
                   lastBegin, everOk, call, ref>>
    /\ UNCHANGED <<driver, modeReady, nonRfVars>>

TxGap ==
    /\ pc = "gap"
    /\ emitted' = emitted \o InterFrameGap
    /\ dataPin' = "LOW"
    /\ i' = i + 1
    /\ pc' = IF i + 1 < repeatCount THEN "sync" ELSE "tail"
    /\ UNCHANGED <<initialized, opMode, codeHigh, codeLow, repeatCount, bit,
                   lastBegin, everOk, call, ref>>
    /\ UNCHANGED <<driver, modeReady, nonRfVars>>

\* "Ensure carrier off", return.  The completed call may be kept in `ref`.
TxReturn ==
    /\ pc = "tail"
    /\ dataPin' = "LOW"
    /\ pc' = "idle"
    /\ \E keep \in BOOLEAN :
          ref' = IF keep
                 THEN [cmd |-> call.cmd, n |-> call.n, mode |-> call.mode,
                       signal |-> emitted]
                 ELSE ref
    /\ UNCHANGED <<initialized, opMode, codeHigh, codeLow, repeatCount, i, bit, emitted,
                   lastBegin, everOk, call>>
    /\ UNCHANGED <<driver, modeReady, nonRfVars>>

(***************************************************************************)
(* GPS_directions: WatersnakeRFController.                                 *)
(***************************************************************************)
WS_SHORT_PULSE_US == 50
WS_LONG_PULSE_US == 102
WS_SYNC_PULSE_US == 170
WS_GAP_US == 114
\* delay(1) before the sync pulse, delay(2) after the last bit and delay(50)
\* after the frame, in microseconds
WS_LEAD_US == 1 * 1000
WS_TAIL_US == 2 * 1000
WS_REPEAT_DELAY_US == 50 * 1000

\* 0x8000576d76ULL
WS_RIGHT_CODE_HIGH == <<8, 0, 0, 0, 5, 7, 6, 13, 7, 6>>
\* 0xf7e077723ba90ULL
WS_RIGHT_CODE_LOW == <<15, 7, 14, 0, 7, 7, 7, 2, 3, 11, 10, 9, 0>>
\* 0x8000576d76ULL
WS_LEFT_CODE_HIGH == <<8, 0, 0, 0, 5, 7, 6, 13, 7, 6>>
\* 0xf7e077723ea84ULL
WS_LEFT_CODE_LOW == <<15, 7, 14, 0, 7, 7, 7, 2, 3, 14, 10, 8, 4>>

\* WatersnakeRFController::sendPwmBit
WsSendPwmBit(b) ==
    IF b = 1
    THEN << <<"HIGH", WS_LONG_PULSE_US>>, <<"LOW", WS_SHORT_PULSE_US>> >>
    ELSE << <<"HIGH", WS_SHORT_PULSE_US>>, <<"LOW", WS_LONG_PULSE_US>> >>

\* WatersnakeRFController::sendSyncPulse
WsSendSyncPulse == << <<"HIGH", WS_SYNC_PULSE_US>>, <<"LOW", WS_GAP_US>> >>

\* the holds of "for (int8_t i = from; i >= 0; i--) sendPwmBit((code >> i) & 1)"
RECURSIVE WsSendBits(_, _)
WsSendBits(code, from) ==
    IF from < 0 THEN <<>>
    ELSE WsSendPwmBit(ShiftBit(code, from)) \o WsSendBits(code, from - 1)

\* WatersnakeRFController::transmitCode
WsTransmitCode(high, low) ==
    << <<"LOW", WS_LEAD_US>> >> \o WsSendSyncPulse \o WsSendBits(high, 39)
        \o WsSendBits(low, 49) \o << <<"LOW", WS_TAIL_US>> >>

\* the loop of transmitRight/transmitLeft: n times transmitCode and delay(50)
RECURSIVE WsRepeat(_, _, _)
WsRepeat(high, low, n) ==
    IF n = 0 THEN <<>>
    ELSE WsTransmitCode(high, low) \o << <<"LOW", WS_REPEAT_DELAY_US>> >>
            \o WsRepeat(high, low, n - 1)

\* a transmit that does not look at `initialized`
WsCanTransmit_Always == TRUE

WsCanTransmit == initialized

\* WatersnakeRFController::begin
WsBegin(initOk, frequencyOk) ==
    /\ driver = "WatersnakeRFController"
    /\ IF ~initOk \/ ~frequencyOk
       THEN /\ lastBegin' = "fail"
            /\ UNCHANGED <<initialized, dataPin, everOk>>
       ELSE /\ initialized' = TRUE
            /\ dataPin' = "LOW"
            /\ lastBegin' = "ok"
            /\ everOk' = TRUE
    /\ UNCHANGED <<driver, opMode, pc, codeHigh, codeLow, repeatCount, i, bit, emitted,
                   call, ref, modeReady,
                   nonRfVars>>

\* WatersnakeRFController::transmitRight / transmitLeft
WsTransmit(cmd, n) ==
    /\ driver = "WatersnakeRFController"
    /\ IF ~WsCanTransmit
       THEN /\ call' = [cmd |-> cmd, n |-> n, ran |-> FALSE, mode |-> opMode]
            /\ emitted' = <<>>
            /\ UNCHANGED <<opMode, dataPin>>
       ELSE /\ call' = [cmd |-> cmd, n |-> n, ran |-> TRUE, mode |-> opMode]
            /\ emitted' = WsRepeat(IF cmd = "RIGHT" THEN WS_RIGHT_CODE_HIGH
                                                    ELSE WS_LEFT_CODE_HIGH,
                                   IF cmd = "RIGHT" THEN WS_RIGHT_CODE_LOW
                                                    ELSE WS_LEFT_CODE_LOW, n)
            /\ opMode' = IF n > 0 THEN "standby" ELSE opMode
            /\ dataPin' = IF n > 0 THEN "LOW" ELSE dataPin
    /\ UNCHANGED <<driver, initialized, pc, codeHigh, codeLow, repeatCount, i, bit,
                   lastBegin, everOk, ref, modeReady,
                   nonRfVars>>

(***************************************************************************)
(* Helm: the burst-pattern RfController.  It drives no data pin: what it   *)
(* emits are writes of the op-mode register, each followed by a delay in   *)
(* milliseconds.                                                           *)
(***************************************************************************)
BURST_DURATION_MS == 14
BURST_GAP_MS == 54
BURST_COUNT == 4
\* what the PA register must read back in begin() (0x80)
PA_EXPECTED == 128

\* values the PA register may read back after the write of 0x80
PaReads == {PA_EXPECTED, 0}

\* RfController::transmitBurstPattern: the loop from `repeat` on
RECURSIVE RfcBursts(_, _)
RfcBursts(repeat, count) ==
    IF repeat >= count THEN <<>>
    ELSE << <<"TX", BURST_DURATION_MS>>,
            <<"STANDBY", IF repeat < count - 1 THEN BURST_GAP_MS ELSE 0>> >>
            \o RfcBursts(repeat + 1, count)

\* a burst that does not look at `initialized`
RfcCanTransmit_Always == TRUE

RfcCanTransmit == initialized

\* RfController::begin
RfcBegin(version, paAfter) ==
    /\ driver = "RfController"
    /\ opMode' = "standby"
    /\ IF version # EXPECTED_VERSION \/ paAfter # PA_EXPECTED
       THEN /\ lastBegin' = "fail"
            /\ UNCHANGED <<initialized, everOk>>
       ELSE /\ initialized' = TRUE
            /\ lastBegin' = "ok"
            /\ everOk' = TRUE
    /\ UNCHANGED <<driver, dataPin, pc, codeHigh, codeLow, repeatCount, i, bit, emitted,
                   call, ref, modeReady,
                   nonRfVars>>

\* RfController::transmitRightButton / transmitLeftButton / transmitSimpleBurst
RfcTransmitButton(button) ==
    /\ driver = "RfController"
    /\ IF ~RfcCanTransmit
       THEN /\ call' = [cmd |-> button, n |-> BURST_COUNT, ran |-> FALSE, mode |-> opMode]
            /\ emitted' = <<>>
            /\ UNCHANGED opMode
       ELSE /\ call' = [cmd |-> button, n |-> BURST_COUNT, ran |-> TRUE, mode |-> opMode]
            /\ emitted' = RfcBursts(0, BURST_COUNT)
            /\ opMode' = "standby"
    /\ UNCHANGED <<driver, initialized, dataPin, pc, codeHigh, codeLow, repeatCount, i, bit,
                   lastBegin, everOk, ref, modeReady,
                   nonRfVars>>

(***************************************************************************)
(* The WatersnakeRFController of the transmitter_test sketch: it has no    *)
(* radio to set up, and keys the transmit pin from a hex string.           *)
(***************************************************************************)
\* WatersnakeRFController.h (transmitter_test): pulse widths in microseconds
TT_SHORT_PULSE == 52
TT_LONG_PULSE == 104
TT_GAP == 52
TT_SYNC_PULSE == 172

\* sendRight: rightCode = "8000576d76f7e077723ba90"
TT_RIGHT_CODE ==
    <<"8", "0", "0", "0", "5", "7", "6", "d", "7", "6",
      "f", "7", "e", "0", "7", "7", "7", "2", "3", "b", "a", "9", "0">>
\* sendLeft: leftCode = "8000576d76f7e077723ea84"
TT_LEFT_CODE ==
    <<"8", "0", "0", "0", "5", "7", "6", "d", "7", "6",
      "f", "7", "e", "0", "7", "7", "7", "2", "3", "e", "a", "8", "4">>

\* sendCode: the nibble of a hex digit, or -1 for a character it skips
HexNibble(c) ==
    LET decimal == <<"0", "1", "2", "3", "4", "5", "6", "7", "8", "9">>
        lower == <<"a", "b", "c", "d", "e", "f">>
        upper == <<"A", "B", "C", "D", "E", "F">>
    IN  IF \E d \in 1..10 : decimal[d] = c THEN (CHOOSE d \in 1..10 : decimal[d] = c) - 1
        ELSE IF \E d \in 1..6 : lower[d] = c THEN (CHOOSE d \in 1..6 : lower[d] = c) + 9
        ELSE IF \E d \in 1..6 : upper[d] = c THEN (CHOOSE d \in 1..6 : upper[d] = c) + 9
        ELSE -1

\* WatersnakeRFController::sendBit (transmitter_test)
TtSendBit(b) == << <<"HIGH", IF b = 1 THEN TT_LONG_PULSE ELSE TT_SHORT_PULSE>>, <<"LOW", TT_GAP>> >>

\* sendCode: the loop over the characters of hexCode from character k on
RECURSIVE TtSendDigits(_, _)
TtSendDigits(hexCode, k) ==
    IF k > Len(hexCode) \/ k > 100 THEN <<>>
    ELSE LET nibble == HexNibble(hexCode[k])
         IN  (IF nibble < 0 THEN <<>>
              ELSE TtSendBit((nibble \div 8) % 2) \o TtSendBit((nibble \div 4) % 2)
                   \o TtSendBit((nibble \div 2) % 2) \o TtSendBit(nibble % 2))
             \o TtSendDigits(hexCode, k + 1)

\* WatersnakeRFController::sendCode (transmitter_test)
TtSendCode(hexCode) ==
    << <<"HIGH", TT_SYNC_PULSE>>, <<"LOW", TT_GAP>> >> \o TtSendDigits(hexCode, 1)

\* the loop of sendRight/sendLeft: `repetitions` times sendCode and delay(50)
RECURSIVE TtRepeat(_, _)
TtRepeat(hexCode, repetitions) ==
    IF repetitions <= 0 THEN <<>>
    ELSE TtSendCode(hexCode) \o << <<"LOW", 50 * 1000>> >>
            \o TtRepeat(hexCode, repetitions - 1)

\* WatersnakeRFController::sendRight / sendLeft (transmitter_test)
TtSend(cmd, repetitions) ==
    /\ driver = "transmitter_test"
    /\ call' = [cmd |-> cmd, n |-> repetitions, ran |-> TRUE, mode |-> opMode]
    /\ emitted' = TtRepeat(IF cmd = "RIGHT" THEN TT_RIGHT_CODE ELSE TT_LEFT_CODE, repetitions)
    /\ UNCHANGED <<driver, initialized, opMode, dataPin, pc, codeHigh, codeLow, repeatCount, i,
                   bit, lastBegin, everOk, ref, modeReady,
                   nonRfVars>>

NextRF ==
    \/ \E version \in VersionReads, driverOk \in BOOLEAN : Begin(version, driverOk)
    \/ RadioReady
    \/ BeginReady
    \/ TestContinuousCarrier
    \/ \E n \in 0..MaxRepeat : TransmitRight(n)
    \/ \E n \in 0..MaxRepeat : TransmitLeft(n)
    \/ TxSync
    \/ TxHighBit
    \/ TxLowBit
    \/ TxGap
    \/ TxReturn
    \/ \E initOk \in BOOLEAN, frequencyOk \in BOOLEAN : WsBegin(initOk, frequencyOk)
    \/ \E cmd \in Commands, n \in 0..MaxRepeat : WsTransmit(cmd, n)
    \/ \E version \in VersionReads, paAfter \in PaReads : RfcBegin(version, paAfter)
    \/ \E button \in {"RIGHT", "LEFT", "SIMPLE"} : RfcTransmitButton(button)
    \/ \E cmd \in Commands, repetitions \in 0..MaxRepeat : TtSend(cmd, repetitions)

(***************************************************************************)
(* The navigation controller.                                              *)
(*                                                                         *)
(* Coordinates are offsets from the point (0, 0), in decimetres of arc     *)
(* (north for the latitude, east for the longitude); distances are in      *)
(* decimetres, angles in whole degrees, hdop in tenths.  Over the few      *)
(* hundred metres the model spans, the haversine distance and the forward  *)
(* azimuth of NavigationUtils are the plane distance and direction; both   *)
(* are computed in integers and rounded down.                              *)
(***************************************************************************)
\* SystemConfig::HEADING_TOLERANCE (15.0 degrees)
HEADING_TOLERANCE == 15
\* SystemConfig::MIN_DISTANCE_METERS (5.0 m), in decimetres
MIN_DISTANCE_METERS == 5 * 10
\* isGpsAccuracyValid: "hdop < 5.0", in tenths
HDOP_LIMIT == 5 * 10
\* isGpsAccuracyValid: "hdop == 99.9", in tenths
HDOP_UNKNOWN == 999

\* millis() advances in steps of TickMs, up to MaxNow
TickMs == 500
MaxNow == 500

\* the waypoints the transport may deliver: none (0,0), 100 m north of the
\* origin, 100 m east of it
Targets == { <<0, 0>>, <<1000, 0>>, <<0, 1000>> }

\* where the receiver may be: at the origin, at the northern waypoint, 4 m and
\* 4.5 m north of it, and 4 m west of the eastern waypoint
Positions == { <<0, 0>>, <<1000, 0>>, <<1040, 0>>, <<1045, 0>>, <<0, 960>> }

Headings == {0, 150, 200}

\* what the receiver may say about a fix: <<hasFix, satellites, hdop>>.  A good
\* fix, hdop unknown, hdop at the limit, hdop zero, too few satellites, no fix.
Qualities == { <<TRUE, 4, 12>>, <<TRUE, 4, HDOP_UNKNOWN>>, <<TRUE, 4, HDOP_LIMIT>>,
               <<TRUE, 4, 0>>, <<TRUE, 2, 12>>, <<FALSE, 0, HDOP_UNKNOWN>> }

\* the GPSData records update() may be given
GpsData == { [hasFix |-> q[1], satellites |-> q[2], hdop |-> q[3],
              latitude |-> p[1], longitude |-> p[2]] : q \in Qualities, p \in Positions }

Abs(x) == IF x < 0 THEN -x ELSE x

\* the integer square root of n, looked for in lo..hi
RECURSIVE SqrtBetween(_, _, _)
SqrtBetween(n, lo, hi) ==
    IF lo >= hi THEN lo
    ELSE LET mid == (lo + hi + 1) \div 2
         IN  IF mid * mid <= n THEN SqrtBetween(n, mid, hi)
                               ELSE SqrtBetween(n, lo, mid - 1)

Sqrt(n) == SqrtBetween(n, 0, 4000)

\* 1000 * tan(d degrees), d = 0..45
Tan1000 == <<0, 17, 35, 52, 70, 87, 105, 123, 141, 158, 176, 194, 213, 231, 249, 268,
             287, 306, 325, 344, 364, 384, 404, 424, 445, 466, 488, 510, 532, 554, 577,
             601, 625, 649, 675, 700, 727, 754, 781, 810, 839, 869, 900, 933, 966, 1000>>

\* atan(num / den) in whole degrees, for 0 <= num <= den, den > 0
AtanDeg(num, den) ==
    CHOOSE d \in 0..45 :
        /\ Tan1000[d + 1] * den <= num * 1000
        /\ d < 45 => Tan1000[d + 2] * den > num * 1000

\* atan2(y, x) * RAD_TO_DEG, in (-180, 180]; atan2(0, 0) = 0
Atan2Deg(y, x) ==
    IF x = 0 /\ y = 0 THEN 0
    ELSE LET a == Abs(y)
             b == Abs(x)
             t == IF a <= b THEN AtanDeg(a, b) ELSE 90 - AtanDeg(b, a)
         IN  IF x >= 0 THEN (IF y >= 0 THEN t ELSE -t)
             ELSE (IF y >= 0 THEN 180 - t ELSE -(180 - t))

\* NavigationUtils::normalizeAngle
RECURSIVE normalizeAngle(_)
normalizeAngle(angle) ==
    IF angle < 0 THEN normalizeAngle(angle + 360)
    ELSE IF angle >= 360 THEN normalizeAngle(angle - 360)
    ELSE angle

\* NavigationUtils::calculateDistance
calculateDistance(lat1, lon1, lat2, lon2) ==
    LET deltaLat == lat2 - lat1
        deltaLon == lon2 - lon1
    IN  Sqrt(deltaLat * deltaLat + deltaLon * deltaLon)

\* NavigationUtils::calculateBearing
calculateBearing(lat1, lon1, lat2, lon2) ==
    LET y == lon2 - lon1
        x == lat2 - lat1
    IN  normalizeAngle(Atan2Deg(y, x))

\* a calculateRelativeAngle() without its "else if (relativeAngle < -180.0f)"
calculateRelativeAngle_NoWrapUp(currentHeading, targetBearing) ==
    LET r == targetBearing - currentHeading
    IN  IF r > 180 THEN r - 360 ELSE r

\* NavigationUtils::calculateRelativeAngle
calculateRelativeAngle(currentHeading, targetBearing) ==
    LET r == targetBearing - currentHeading
    IN  IF r > 180 THEN r - 360
        ELSE IF r < -180 THEN r + 360
        ELSE r

\* hasValidTarget() that looks at the latitude alone
hasValidTarget_LatitudeOnly == targetLatitude # 0

\* NavigationManager::hasValidTarget
hasValidTarget == targetLatitude # 0 \/ targetLongitude # 0

\* NavigationManager::isGpsAccuracyValid
isGpsAccuracyValid(gpsData) ==
    /\ gpsData.hasFix
    /\ gpsData.satellites >= 4
    /\ (gpsData.hdop < HDOP_LIMIT \/ gpsData.hdop = HDOP_UNKNOWN)

\* NavigationManager::canNavigate
canNavigate(gpsData) ==
    hasValidTarget /\ isGpsAccuracyValid(gpsData) /\ navigationEnabled

\* a shouldCorrectHeading() that does not look at the distance
FarFromTarget_Always == TRUE

\* NavigationManager::shouldCorrectHeading: "not too close to destination"
FarFromTarget == distanceToTarget > MIN_DISTANCE_METERS

\* NavigationManager::shouldCorrectHeading
shouldCorrectHeading(gpsData, currentHeading) ==
    IF ~canNavigate(gpsData) THEN FALSE
    ELSE Abs(relativeAngle) > HEADING_TOLERANCE /\ FarFromTarget

\* a getHeadingCorrection() that does not look at the mode
getHeadingCorrection_IgnoresMode == relativeAngle

\* NavigationManager::getHeadingCorrection
getHeadingCorrection == IF mode # "NAVIGATING" THEN 0 ELSE relativeAngle

\* NavigationManager::NavigationManager()
InitNav ==
    /\ mode = "IDLE"
    /\ targetLatitude = 0
    /\ targetLongitude = 0
    /\ distanceToTarget = 0
    /\ bearingToTarget = 0
    /\ relativeAngle = 0
    /\ navigationEnabled = FALSE
    /\ lastGpsFix = FALSE
    /\ lastUpdateTime = 0
    /\ now = 0
    /\ lastOp = "new"
    /\ prevFixValid = FALSE
    /\ freshFix = FALSE
    /\ fixLost = FALSE
    /\ upd = NoUpdate

\* the mode setNavigationEnabled(false) leaves: a disable that keeps the mode
ModeWhenDisabled_Kept == mode

\* the mode setNavigationEnabled(false) leaves
ModeWhenDisabled == "IDLE"

\* what setNavigationEnabled(enabled) does to the controller
setNavigationEnabled(enabled) ==
    /\ navigationEnabled' = enabled
    /\ mode' = IF ~enabled THEN ModeWhenDisabled
               ELSE IF hasValidTarget THEN "NAVIGATING"
               ELSE mode

\* a setTarget() that starts navigating whether or not navigation is enabled
SetTarget_AlwaysNavigating(latitude, longitude) ==
    /\ targetLatitude' = latitude
    /\ targetLongitude' = longitude
    /\ mode' = "NAVIGATING"
    /\ lastOp' = "setTarget"
    /\ upd' = NoUpdate
    /\ UNCHANGED <<prevFixValid, freshFix, fixLost>>
    /\ UNCHANGED <<distanceToTarget, bearingToTarget, relativeAngle, navigationEnabled,
                   lastGpsFix, lastUpdateTime, now>>
    /\ UNCHANGED nonNavVars

\* NavigationManager::setTarget
SetTarget(latitude, longitude) ==
    /\ targetLatitude' = latitude
    /\ targetLongitude' = longitude
    /\ mode' = IF navigationEnabled THEN "NAVIGATING" ELSE mode
    /\ lastOp' = "setTarget"
    /\ upd' = NoUpdate
    /\ UNCHANGED <<prevFixValid, freshFix, fixLost>>
    /\ UNCHANGED <<distanceToTarget, bearingToTarget, relativeAngle, navigationEnabled,
                   lastGpsFix, lastUpdateTime, now>>
    /\ UNCHANGED nonNavVars

\* NavigationManager::setNavigationEnabled, called by the owner
SetNavigationEnabled(enabled) ==
    /\ setNavigationEnabled(enabled)
    /\ lastOp' = IF enabled THEN "enable" ELSE "disable"
    /\ upd' = NoUpdate
    /\ UNCHANGED <<prevFixValid, freshFix, fixLost>>
    /\ UNCHANGED <<targetLatitude, targetLongitude, distanceToTarget, bearingToTarget,
                   relativeAngle, lastGpsFix, lastUpdateTime, now>>
    /\ UNCHANGED nonNavVars

\* a clearTarget() that forgets the target but keeps the computed distance,
\* bearing and relative angle
ClearTarget_KeepsGeometry ==
    /\ mode' = "IDLE"
    /\ targetLatitude' = 0
    /\ targetLongitude' = 0
    /\ navigationEnabled' = FALSE
    /\ lastOp' = "clearTarget"
    /\ upd' = NoUpdate
    /\ freshFix' = FALSE
    /\ UNCHANGED <<prevFixValid, fixLost>>
    /\ UNCHANGED <<distanceToTarget, bearingToTarget, relativeAngle, lastGpsFix,
                   lastUpdateTime, now>>
    /\ UNCHANGED nonNavVars

\* NavigationManager::clearTarget
ClearTarget ==
    /\ mode' = "IDLE"
    /\ targetLatitude' = 0
    /\ targetLongitude' = 0
    /\ distanceToTarget' = 0
    /\ bearingToTarget' = 0
    /\ relativeAngle' = 0
    /\ navigationEnabled' = FALSE
    /\ lastOp' = "clearTarget"
    /\ upd' = NoUpdate
    /\ freshFix' = FALSE
    /\ UNCHANGED <<prevFixValid, fixLost>>
    /\ UNCHANGED <<lastGpsFix, lastUpdateTime, now>>
    /\ UNCHANGED nonNavVars

\* an update() that never auto-disables
InterlockFires_Never(validGpsFix) == FALSE

\* NavigationManager::update: "if (lastGpsFix && !validGpsFix && navigationEnabled)"
InterlockFires(validGpsFix) == lastGpsFix /\ ~validGpsFix /\ navigationEnabled

\* an update() that goes on to the calculations in mode IDLE
SkipsCalculation_IgnoresIdle(validGpsFix) == ~navigationEnabled \/ ~validGpsFix

\* NavigationManager::update:
\* "if (!navigationEnabled || state.mode == NavigationMode::IDLE || !validGpsFix) return"
SkipsCalculation(validGpsFix) == ~navigationEnabled \/ mode = "IDLE" \/ ~validGpsFix

\* an update() that never leaves ARRIVED
ModeAfterFix_Sticky(distance) ==
    IF distance <= MIN_DISTANCE_METERS \/ mode = "ARRIVED" THEN "ARRIVED" ELSE "NAVIGATING"

\* NavigationManager::update: "Check if arrived at destination"
ModeAfterFix(distance) ==
    IF distance <= MIN_DISTANCE_METERS THEN "ARRIVED" ELSE "NAVIGATING"

\* NavigationManager::update
Update(gpsData, heading) ==
    LET validGpsFix == gpsData.hasFix /\ isGpsAccuracyValid(gpsData)
        distance == calculateDistance(gpsData.latitude, gpsData.longitude,
                                      targetLatitude, targetLongitude)
        bearing == calculateBearing(gpsData.latitude, gpsData.longitude,
                                    targetLatitude, targetLongitude)
    IN  /\ lastOp' = "update"
        /\ prevFixValid' = validGpsFix
        /\ freshFix' = IF freshFix /\ ~validGpsFix /\ navigationEnabled
                       THEN freshFix ELSE validGpsFix
        /\ fixLost' = IF InterlockFires(validGpsFix) THEN TRUE
                      ELSE IF validGpsFix THEN FALSE ELSE fixLost
        /\ upd' = [quality |-> <<gpsData.hasFix, gpsData.satellites, gpsData.hdop>>,
                   branch |-> IF InterlockFires(validGpsFix) THEN "interlock"
                              ELSE IF SkipsCalculation(validGpsFix)
                              THEN "skip" ELSE "compute",
                   from |-> mode, was |-> navigationEnabled]
        /\ IF InterlockFires(validGpsFix)
           THEN \* auto-disable on GPS fix loss
                /\ setNavigationEnabled(FALSE)
                /\ UNCHANGED <<targetLatitude, targetLongitude, distanceToTarget,
                               bearingToTarget, relativeAngle, lastGpsFix, lastUpdateTime>>
           ELSE /\ lastGpsFix' = validGpsFix
                /\ IF SkipsCalculation(validGpsFix)
                   THEN UNCHANGED <<mode, targetLatitude, targetLongitude, distanceToTarget,
                                    bearingToTarget, relativeAngle, navigationEnabled,
                                    lastUpdateTime>>
                   ELSE /\ lastUpdateTime' = now
                        /\ distanceToTarget' = distance
                        /\ bearingToTarget' = bearing
                        /\ relativeAngle' = calculateRelativeAngle(heading, bearing)
                        /\ mode' = ModeAfterFix(distance)
                        /\ UNCHANGED <<targetLatitude, targetLongitude, navigationEnabled>>
        /\ UNCHANGED now
        /\ UNCHANGED nonNavVars

\* time passes
Tick ==
    /\ now < MaxNow
    /\ now' = now + TickMs
    /\ upd' = NoUpdate
    /\ UNCHANGED <<prevFixValid, freshFix, fixLost>>
    /\ UNCHANGED <<mode, targetLatitude, targetLongitude, distanceToTarget, bearingToTarget,
                   relativeAngle, navigationEnabled, lastGpsFix, lastUpdateTime, lastOp>>
    /\ UNCHANGED nonNavVars

NextNav ==
    \/ \E t \in Targets : SetTarget(t[1], t[2])
    \/ \E enabled \in BOOLEAN : SetNavigationEnabled(enabled)
    \/ ClearTarget
    \/ \E gpsData \in GpsData, heading \in Headings : Update(gpsData, heading)
    \/ Tick

(***************************************************************************)
(* The correction loop of the sketch.                                      *)
(***************************************************************************)
\* a correction interval as short as one tick
MIN_CORRECTION_INTERVAL_OneTick == TickMs

\* SystemConfig::MIN_CORRECTION_INTERVAL, in milliseconds
MIN_CORRECTION_INTERVAL == 2000

\* millis() in the correction loop goes up to MaxLoopNow
MaxLoopNow == 2500

\* what the correction loop is given: one waypoint 100 m north of the origin,
\* the receiver at the origin with a good fix or too few satellites, and the
\* bow pointing 30 degrees left of the waypoint or straight at it
LoopTargets == { <<1000, 0>> }
LoopGpsData == { [hasFix |-> TRUE, satellites |-> s, hdop |-> 12,
                  latitude |-> 0, longitude |-> 0] : s \in {4, 2} }
LoopHeadings == {330, 0, 30}

\* the latest correction tick: whether one ran, whether it transmitted and
\* what, when it ran, when the correction before it was made, and how many
\* corrections have been transmitted so far
NoCorrection ==
    [ran |-> FALSE, fired |-> FALSE, command |-> "none", at |-> 0, since |-> 0, count |-> 0]

\* NavigationState::NavigationState(): lastCorrectionTime(0)
InitHelm ==
    /\ lastCorrectionTime = 0
    /\ correction = NoCorrection

\* the correction decision of an update tick: fire if mode is NAVIGATING,
\* |relativeAngle| > HEADING_TOLERANCE and MIN_CORRECTION_INTERVAL has elapsed
\* since the last correction; steer right if relativeAngle > 0, else left, and
\* stamp the correction time
CorrectionTick ==
    LET fire == /\ mode = "NAVIGATING"
                /\ Abs(relativeAngle) > HEADING_TOLERANCE
                /\ now - lastCorrectionTime >= MIN_CORRECTION_INTERVAL
    IN  /\ lastCorrectionTime' = IF fire THEN now ELSE lastCorrectionTime
        /\ correction' = [ran |-> TRUE, fired |-> fire,
                          command |-> IF ~fire THEN "none"
                                      ELSE IF relativeAngle > 0 THEN "RIGHT" ELSE "LEFT",
                          at |-> now, since |-> lastCorrectionTime,
                          count |-> correction.count + (IF fire THEN 1 ELSE 0)]
        /\ UNCHANGED <<rfVars, navVars, utilVars, bleVars>>

\* time passes in the correction loop
Delay ==
    /\ now < MaxLoopNow
    /\ now' = now + TickMs
    /\ upd' = NoUpdate
    /\ UNCHANGED <<mode, targetLatitude, targetLongitude, distanceToTarget, bearingToTarget,
                   relativeAngle, navigationEnabled, lastGpsFix, lastUpdateTime, lastOp,
                   prevFixValid, freshFix, fixLost>>
    /\ UNCHANGED nonNavVars

NextHelm ==
    \/ \E t \in LoopTargets : SetTarget(t[1], t[2])
    \/ \E enabled \in BOOLEAN : SetNavigationEnabled(enabled)
    \/ ClearTarget
    \/ \E gpsData \in LoopGpsData, heading \in LoopHeadings : Update(gpsData, heading)
    \/ CorrectionTick
    \/ Delay

(***************************************************************************)
(* Calls of the NavigationUtils functions.  A float is <<m, e>>, the value *)
(* m * 2^e with |m| < 2^24: e = 0 for the whole numbers below 2^24, which  *)
(* a float holds exactly, and e > 0 for the larger values, which are       *)
(* multiples of 2^e.                                                       *)
(***************************************************************************)
\* the largest whole number of degrees given to normalizeAngle
MaxAngle == 1080

\* headings and bearings: whole degrees in [0, 360)
Degrees == 0..359

\* 8589935616.0f = 2^33 + 2^10: mantissa 2^23 + 1, unit in the last place 2^10
Big == <<8388608 + 1, 10>>

\* the angles normalizeAngle is given
Angles == { <<a, 0>> : a \in -MaxAngle..MaxAngle } \cup { Big, <<-Big[1], Big[2]>> }

\* the unit in the last place of a float with exponent e: 2^e
RECURSIVE Ulp(_)
Ulp(e) == IF e = 0 THEN 1 ELSE 2 * Ulp(e - 1)

\* x + k in float arithmetic, k a whole number: the exact sum rounded to the
\* nearest multiple of 2^e (for e > 0, x is not the least float of exponent e
\* and |k| < 2^e, so the sum has the exponent of x)
FloatAdd(x, k) ==
    IF x[2] = 0 THEN <<x[1] + k, 0>>
    ELSE LET ulp == Ulp(x[2])
         IN  <<x[1] + ((2 * k + ulp) \div (2 * ulp)), x[2]>>

\* x < 0.0f and x >= 360.0f
FloatNegative(x) == x[1] < 0
FloatAtLeast360(x) == IF x[2] = 0 THEN x[1] >= 360 ELSE x[1] > 0

\* a call of calculateRelativeAngle or of normalizeAngle is about to be made
InitCall ==
    /\ \/ /\ fn = "calculateRelativeAngle"
          /\ args \in Degrees \X Degrees
       \/ /\ fn = "normalizeAngle"
          /\ args \in { <<a>> : a \in Angles }
    /\ loopAngle = <<0, 0>>
    /\ upc = "call"
    /\ result = <<0, 0>>

\* NavigationUtils::calculateRelativeAngle(args[1], args[2])
CalculateRelativeAngle ==
    /\ fn = "calculateRelativeAngle"
    /\ upc = "call"
    /\ result' = <<calculateRelativeAngle(args[1], args[2]), 0>>
    /\ upc' = "done"
    /\ UNCHANGED <<fn, args, loopAngle, rfVars, navVars, helmVars, bleVars>>

\* NavigationUtils::normalizeAngle(args[1]) is entered
NormalizeAngle ==
    /\ fn = "normalizeAngle"
    /\ upc = "call"
    /\ loopAngle' = args[1]
    /\ upc' = "whileNegative"
    /\ UNCHANGED <<fn, args, result, rfVars, navVars, helmVars, bleVars>>

\* "while (angle < 0.0f) { angle += 360.0f; }": one test of the condition
WhileNegative ==
    /\ upc = "whileNegative"
    /\ IF FloatNegative(loopAngle)
       THEN /\ loopAngle' = FloatAdd(loopAngle, 360)
            /\ UNCHANGED upc
       ELSE /\ upc' = "whileLarge"
            /\ UNCHANGED loopAngle
    /\ UNCHANGED <<fn, args, result, rfVars, navVars, helmVars, bleVars>>

\* "while (angle >= 360.0f) { angle -= 360.0f; } return angle;": one test
WhileLarge ==
    /\ upc = "whileLarge"
    /\ IF FloatAtLeast360(loopAngle)
       THEN /\ loopAngle' = FloatAdd(loopAngle, -360)
            /\ UNCHANGED <<upc, result>>
       ELSE /\ result' = loopAngle
            /\ upc' = "done"
            /\ UNCHANGED loopAngle
    /\ UNCHANGED <<fn, args, rfVars, navVars, helmVars, bleVars>>

NextUtil ==
    \/ CalculateRelativeAngle
    \/ NormalizeAngle
    \/ WhileNegative
    \/ WhileLarge

\* no call is made
InitNoCall ==
    /\ fn = "none"
    /\ args = <<>>
    /\ loopAngle = <<0, 0>>
    /\ upc = "none"
    /\ result = <<0, 0>>

(***************************************************************************)
(* BluetoothController: the JSON text it validates and builds.  A text is  *)
(* [head, fill, tail]: the characters of head, then fill padding letters   *)
(* 'A' + (i % 26), i = 0 .. fill - 1, as createTestJSON writes them, then  *)
(* the characters of tail.  A character is a string of length one.         *)
(***************************************************************************)
Letters == <<"A", "B", "C", "D", "E", "F", "G", "H", "I", "J", "K", "L", "M",
             "N", "O", "P", "Q", "R", "S", "T", "U", "V", "W", "X", "Y", "Z">>

\* the text with the characters s and no padding
Str(s) == [head |-> s, fill |-> 0, tail |-> <<>>]

\* strlen(jsonData)
Length(jsonData) == Len(jsonData.head) + jsonData.fill + Len(jsonData.tail)

\* jsonData[k - 1], k in 1 .. strlen(jsonData)
At(jsonData, k) ==
    IF k <= Len(jsonData.head) THEN jsonData.head[k]
    ELSE IF k <= Len(jsonData.head) + jsonData.fill
    THEN Letters[((k - Len(jsonData.head) - 1) % 26) + 1]
    ELSE jsonData.tail[k - Len(jsonData.head) - jsonData.fill]

\* String::indexOf(pattern) >= 0 on a sequence of characters
Contains(s, pattern) ==
    \E k \in 1..(Len(s) - Len(pattern) + 1) : SubSeq(s, k, k + Len(pattern) - 1) = pattern

\* jsonStr.indexOf(pattern) >= 0, pattern without capital letters: no match
\* takes in a padding letter
IndexOfFound(jsonData, pattern) ==
    IF jsonData.fill = 0 THEN Contains(jsonData.head \o jsonData.tail, pattern)
    ELSE Contains(jsonData.head, pattern) \/ Contains(jsonData.tail, pattern)

CorruptFalse == <<"f", "a", "l", "s", "e", ".">>
CorruptTrue == <<"t", "r", "u", "e", ".">>
CorruptNull == <<"n", "u", "l", "l", ".">>

\* isValidCompleteJSON: one pass of its loop over the character c
ScanStep(st, c) ==
    IF st.escaped THEN [st EXCEPT !.escaped = FALSE]
    ELSE IF c = "\\" THEN [st EXCEPT !.escaped = TRUE]
    ELSE IF c = "\"" THEN [st EXCEPT !.inString = ~st.inString]
    ELSE IF st.inString THEN st
    ELSE IF c = "{" THEN [st EXCEPT !.braceCount = st.braceCount + 1]
    ELSE IF c = "}" THEN [st EXCEPT !.braceCount = st.braceCount - 1]
    ELSE st

\* the loop over the characters s[lo], ..., s[hi], in that order
RECURSIVE ScanRange(_, _, _, _)
ScanRange(st, s, lo, hi) ==
    IF lo > hi THEN st
    ELSE IF lo = hi THEN ScanStep(st, s[lo])
    ELSE LET mid == (lo + hi) \div 2
             left == ScanRange(st, s, lo, mid)
         IN  \* the first half is scanned before the second half starts
             IF left.braceCount = left.braceCount THEN ScanRange(left, s, mid + 1, hi)
             ELSE left

\* the loop over the characters s[k], s[k + 1], ...
ScanFrom(st, s, k) == ScanRange(st, s, k, Len(s))

\* the loop over n padding letters: the first clears `escaped`, the others
\* change nothing
ScanFill(st, n) == IF n = 0 THEN st ELSE [st EXCEPT !.escaped = FALSE]

\* an isValidCompleteJSON() without its final "&& !inString"
isValidCompleteJSON_OpenString(jsonData) ==
    IF Length(jsonData) = 0 THEN FALSE
    ELSE IF At(jsonData, 1) # "{" THEN FALSE
    ELSE IF At(jsonData, Length(jsonData)) # "}" THEN FALSE
    ELSE IF IndexOfFound(jsonData, CorruptFalse) \/ IndexOfFound(jsonData, CorruptTrue)
    THEN FALSE
    ELSE IF IndexOfFound(jsonData, CorruptNull) THEN FALSE
    ELSE LET start == [braceCount |-> 0, inString |-> FALSE, escaped |-> FALSE]
             st == ScanFrom(ScanFill(ScanFrom(start, jsonData.head, 1), jsonData.fill),
                            jsonData.tail, 1)
         IN  st.braceCount = 0

\* BluetoothController::isValidCompleteJSON
isValidCompleteJSON(jsonData) ==
    IF Length(jsonData) = 0 THEN FALSE
    ELSE IF At(jsonData, 1) # "{" THEN FALSE
    ELSE IF At(jsonData, Length(jsonData)) # "}" THEN FALSE
    ELSE IF IndexOfFound(jsonData, CorruptFalse) \/ IndexOfFound(jsonData, CorruptTrue)
    THEN FALSE
    ELSE IF IndexOfFound(jsonData, CorruptNull) THEN FALSE
    ELSE LET start == [braceCount |-> 0, inString |-> FALSE, escaped |-> FALSE]
             st == ScanFrom(ScanFill(ScanFrom(start, jsonData.head, 1), jsonData.fill),
                            jsonData.tail, 1)
         IN  st.braceCount = 0 /\ ~st.inString

\* a fallback text that lost its closing brace
createEssentialStatusJSON_Unclosed ==
    Str(<<"{", "\"", "h", "a", "s", "_", "f", "i", "x", "\"", ":", "f", "a", "l", "s", "e">>)

\* BluetoothController::createEssentialStatusJSON
createEssentialStatusJSON ==
    Str(<<"{">>
        \o <<"\"", "h", "a", "s", "_", "f", "i", "x", "\"", ":", "f", "a", "l", "s", "e", ",">>
        \o <<"\"", "s", "a", "t", "e", "l", "l", "i", "t", "e", "s", "\"", ":", "0", ",">>
        \o <<"\"", "c", "u", "r", "r", "e", "n", "t", "L", "a", "t", "\"", ":", "0", ".", "0", ",">>
        \o <<"\"", "c", "u", "r", "r", "e", "n", "t", "L", "o", "n", "\"", ":", "0", ".", "0", ",">>
        \o <<"\"", "a", "l", "t", "i", "t", "u", "d", "e", "\"", ":", "0", ".", "0", ",">>
        \o <<"\"", "h", "e", "a", "d", "i", "n", "g", "\"", ":", "0", ".", "0", ",">>
        \o <<"\"", "d", "i", "s", "t", "a", "n", "c", "e", "\"", ":", "0", ".", "0", ",">>
        \o <<"\"", "b", "e", "a", "r", "i", "n", "g", "\"", ":", "0", ".", "0", ",">>
        \o <<"\"", "t", "a", "r", "g", "e", "t", "L", "a", "t", "\"", ":", "n", "u", "l", "l", ",">>
        \o <<"\"", "t", "a", "r", "g", "e", "t", "L", "o", "n", "\"", ":", "n", "u", "l", "l">>
        \o <<"}">>)

(***************************************************************************)
(* BluetoothController: the connection, the MTU and sendStatus.  A write   *)
(* to the status characteristic is [header, text, from, len]: the header   *)
(* bytes, then len characters of a text from its offset `from`; the text   *)
(* is "jsonData" (sendStatus's argument), "fallback" (what                 *)
(* createEssentialStatusJSON returns) or "probe" (createTestJSON(200)).    *)
(***************************************************************************)
\* BluetoothController::createTestJSON
createTestJSON(targetSize) ==
    LET json == <<"{", "\"", "t", "e", "s", "t", "\"", ":", "t", "r", "u", "e", ",", "\"", "m", "t",
  "u", "_", "p", "r", "o", "b", "e", "\"", ":", "\"">>
        paddingNeeded == targetSize - Len(json) - 3
    IN  [head |-> json,
         fill |-> IF paddingNeeded < 0 THEN 0
                  ELSE IF paddingNeeded > 300 THEN 300 ELSE paddingNeeded,
         tail |-> <<"\"", "}">>]

\* the payloads sendStatus is given: createTestJSON-shaped texts of 100, 150,
\* 182, 183, 356 and 500 characters, of 255 * 178, 255 * 178 + 1 and
\* 256 * 178 + 1 characters, and rejected texts: empty, {}"}, {"a":true.} and
\* two of 500 characters, one ending inside a string and one with the fragment
\* "null." in it
PayloadSizes == {100, 150, 182, 183, 356, 500, 45390, 45391, 45569}

Payloads ==
    { [createTestJSON(0) EXCEPT !.fill = n - 28] : n \in PayloadSizes }
    \cup { Str(<<>>),
           Str(<<"{", "}", "\"", "}">>),
           Str(<<"{", "\"", "a", "\"", ":", "t", "r", "u", "e", ".", "}">>),
           [head |-> <<"{", "\"", "x", "\"", ":", "\"">>, fill |-> 493, tail |-> <<"}">>],
           [head |-> <<"{", "\"", "x", "\"", ":", "n", "u", "l", "l", ".", ",", "\"", "y", "\"", ":", "\"">>, fill |-> 482, tail |-> <<"\"", "}">>] }

\* BluetoothController::updateEffectiveMTU: the new <<negotiatedMTU, effectiveMTU>>
updateEffectiveMTU_NoOverhead(mtu) ==
    LET negotiated == IF mtu > 23 THEN mtu ELSE 23
    IN  <<negotiated, negotiated>>

updateEffectiveMTU(mtu) ==
    LET negotiated == IF mtu > 23 THEN mtu ELSE 23
    IN  <<negotiated, negotiated - 3>>

\* BluetoothController::requestHigherMTU
requestHigherMTU == updateEffectiveMTU(185)

\* BluetoothController::detectActualMTU: the new <<negotiatedMTU, effectiveMTU>>
detectActualMTU(successfulLength) ==
    IF successfulLength > effectiveMTU /\ successfulLength <= 512
    THEN updateEffectiveMTU(successfulLength + 10)
    ELSE <<negotiatedMTU, effectiveMTU>>

\* statusCharacteristic.writeValue(text.c_str())
WriteValue(text, t) == [header |-> <<>>, text |-> text, from |-> 0, len |-> Length(t)]

\* BluetoothController::sendFragment: the write it makes, the fragment's
\* data being jsonData + offset
sendFragment(offset, dataLen, seqNum, total, totalLength) ==
    [header |-> <<seqNum % 256, total % 256,
                  ((totalLength % 65536) \div 256) % 256, (totalLength % 65536) % 256>>,
     text |-> "jsonData", from |-> offset, len |-> dataLen]

\* the text a write took its characters from
TextOf(w) ==
    IF w.text = "jsonData" THEN sent.jsonData
    ELSE IF w.text = "fallback" THEN createEssentialStatusJSON
    ELSE createTestJSON(200)

\* the characters of a write, without its header
Data(w) == [k \in 1..w.len |-> At(TextOf(w), w.from + k)]

NoSend == [live |-> FALSE, jsonData |-> Str(<<>>), mtu |-> 0]
NoEvent == [event |-> "none", callback |-> <<>>, response |-> <<>>]

\* BluetoothController::BluetoothController() and the static members
InitBle ==
    /\ bleInitialized = FALSE
    /\ connected = FALSE
    /\ advertising = FALSE
    /\ effectiveMTU = 20
    /\ negotiatedMTU = 23
    /\ navigationCallback = FALSE
    /\ waypointCallback = FALSE
    /\ blePc = "idle"
    /\ totalFragments = 0
    /\ seq = 0
    /\ lastStatusJson = Str(<<>>)
    /\ calibrationWrite = <<>>
    /\ sent = NoSend
    /\ statusWrites = <<>>
    /\ handled = NoEvent
    /\ lastBle = "new"

\* BluetoothController::begin, BLE.begin() succeeding or not
BleBegin(ok) ==
    /\ blePc = "idle"
    /\ ~bleInitialized
    /\ bleInitialized' = ok
    /\ advertising' = ok
    /\ statusWrites' = <<>>
    /\ handled' = NoEvent
    /\ lastBle' = "begin"
    /\ UNCHANGED <<connected, effectiveMTU, negotiatedMTU, navigationCallback,
                   waypointCallback, blePc, totalFragments, seq, sent>>
    /\ calibrationWrite' = <<>>
    /\ UNCHANGED lastStatusJson
    /\ UNCHANGED nonBleVars

\* BluetoothController::setWaypointCallback and setNavigationCallback
SetCallbacks ==
    /\ blePc = "idle"
    /\ ~(navigationCallback /\ waypointCallback)
    /\ navigationCallback' = TRUE
    /\ waypointCallback' = TRUE
    /\ statusWrites' = <<>>
    /\ handled' = NoEvent
    /\ lastBle' = "setCallbacks"
    /\ UNCHANGED <<bleInitialized, connected, advertising, effectiveMTU, negotiatedMTU,
                   blePc, totalFragments, seq, sent>>
    /\ calibrationWrite' = <<>>
    /\ UNCHANGED lastStatusJson
    /\ UNCHANGED nonBleVars

\* a sendStatus() that validates only what fits in one write
Rejected_WhenShort(jsonData) ==
    ~isValidCompleteJSON(jsonData) /\ Length(jsonData) <= effectiveMTU

\* BluetoothController::sendStatus: "Invalid JSON detected, using fallback"
Rejected(jsonData) == ~isValidCompleteJSON(jsonData)

\* a sendStatus() that compares with the negotiated MTU
FitsWhole_Negotiated(jsonLength) == jsonLength <= negotiatedMTU

\* BluetoothController::sendStatus: the message fits within the MTU
FitsWhole(jsonLength) == jsonLength <= effectiveMTU

\* BluetoothController::sendStatus: jsonLength > effectiveMTU * 0.8
AboveThreshold(jsonLength) == 10 * jsonLength > 8 * effectiveMTU

\* a fragment size that forgets the header
FragmentSize_WholeMTU(mtu) == mtu

\* BluetoothController::sendFragmentedMessage: fragmentSize
FragmentSize(mtu) == mtu - 4

\* BluetoothController::sendFragmentedMessage: totalFragments, a uint8_t
TotalFragments(totalLength, fragmentSize) ==
    ((totalLength + fragmentSize - 1) \div fragmentSize) % 256

\* what sendStatus(jsonData) does to the controller, up to its return or to
\* the first pass of sendFragmentedMessage's loop
sendStatus(jsonData) ==
    /\ sent' = [live |-> bleInitialized /\ connected, jsonData |-> jsonData,
                mtu |-> effectiveMTU]
    /\ IF ~bleInitialized \/ ~connected
       THEN /\ statusWrites' = <<>>
            /\ UNCHANGED <<effectiveMTU, negotiatedMTU, blePc, totalFragments, seq>>
       ELSE IF Rejected(jsonData)
       THEN /\ statusWrites' = <<WriteValue("fallback", createEssentialStatusJSON)>>
            /\ UNCHANGED <<effectiveMTU, negotiatedMTU, blePc, totalFragments, seq>>
       ELSE IF FitsWhole(Length(jsonData))
       THEN /\ statusWrites' = <<WriteValue("jsonData", jsonData)>>
            /\ negotiatedMTU' = IF AboveThreshold(Length(jsonData))
                                THEN detectActualMTU(Length(jsonData))[1]
                                ELSE negotiatedMTU
            /\ effectiveMTU' = IF AboveThreshold(Length(jsonData))
                               THEN detectActualMTU(Length(jsonData))[2]
                               ELSE effectiveMTU
            /\ UNCHANGED <<blePc, totalFragments, seq>>
       ELSE LET total == TotalFragments(Length(jsonData), FragmentSize(effectiveMTU))
            IN  IF total > 255
                THEN /\ statusWrites' = <<WriteValue("fallback", createEssentialStatusJSON)>>
                     /\ UNCHANGED <<effectiveMTU, negotiatedMTU, blePc, totalFragments, seq>>
                ELSE /\ statusWrites' = <<>>
                     /\ blePc' = "fragments"
                     /\ totalFragments' = total
                     /\ seq' = 0
                     /\ UNCHANGED <<effectiveMTU, negotiatedMTU>>
    /\ UNCHANGED <<bleInitialized, connected, advertising, navigationCallback,
                   waypointCallback>>

\* BluetoothController::sendStatus, called by the owner
SendStatus(jsonData) ==
    /\ blePc = "idle"
    /\ sendStatus(jsonData)
    /\ handled' = NoEvent
    /\ lastBle' = "sendStatus"
    /\ calibrationWrite' = <<>>
    /\ UNCHANGED lastStatusJson
    /\ UNCHANGED nonBleVars

\* BluetoothController::sendFragmentedMessage: one pass of its loop, or its
\* return when the loop is over; fragmentSize was computed from the MTU the
\* call found
SendFragment ==
    /\ blePc = "fragments"
    /\ LET totalLength == Length(sent.jsonData)
           fragmentSize == FragmentSize(sent.mtu)
           offset == seq * fragmentSize
           remainingLength == totalLength - offset
           currentFragmentSize ==
               IF remainingLength < fragmentSize THEN remainingLength ELSE fragmentSize
       IN  IF seq < totalFragments
           THEN /\ statusWrites' =
                       Append(statusWrites, sendFragment(offset, currentFragmentSize, seq,
                                                         totalFragments, totalLength))
                /\ seq' = (seq + 1) % 256
                /\ UNCHANGED blePc
           ELSE /\ blePc' = "idle"
                /\ UNCHANGED <<statusWrites, seq>>
    /\ handled' = NoEvent
    /\ lastBle' = "sendStatus"
    /\ UNCHANGED <<bleInitialized, connected, advertising, effectiveMTU, negotiatedMTU,
                   navigationCallback, waypointCallback, totalFragments, sent>>
    /\ calibrationWrite' = <<>>
    /\ UNCHANGED lastStatusJson
    /\ UNCHANGED nonBleVars

(***************************************************************************)
(* BluetoothController: update(), whose BLE.poll() runs the handlers that  *)
(* begin() registered.                                                     *)
(***************************************************************************)
\* String::startsWith
StartsWith(s, prefix) == Len(s) >= Len(prefix) /\ SubSeq(s, 1, Len(prefix)) = prefix

\* String::endsWith, of one character
EndsWith(s, c) == Len(s) >= 1 /\ s[Len(s)] = c

\* String::indexOf(c, fromIndex): the 0-based index, -1 if there is none
RECURSIVE IndexOf(_, _, _)
IndexOf(s, c, fromIndex) ==
    IF fromIndex >= Len(s) THEN -1
    ELSE IF s[fromIndex + 1] = c THEN fromIndex
    ELSE IndexOf(s, c, fromIndex + 1)

\* String::substring(left, right)
Substring(s, left, right) == SubSeq(s, left + 1, right)

Digits == <<"0", "1", "2", "3", "4", "5", "6", "7", "8", "9">>

IsDigit(c) == \E d \in 1..10 : Digits[d] = c

DigitOf(c) == (CHOOSE d \in 1..10 : Digits[d] = c) - 1

\* the digits of s from index k on: <<their value, the index after them>>
RECURSIVE ParseDigits(_, _, _)
ParseDigits(s, k, acc) ==
    IF k <= Len(s) /\ IsDigit(s[k]) THEN ParseDigits(s, k + 1, 10 * acc + DigitOf(s[k]))
    ELSE <<acc, k>>

\* the first three decimals of s from index k on, in thousandths
RECURSIVE ParseDecimals(_, _, _)
ParseDecimals(s, k, place) ==
    IF place >= 1 /\ k <= Len(s) /\ IsDigit(s[k])
    THEN place * DigitOf(s[k]) + ParseDecimals(s, k + 1, place \div 10)
    ELSE 0

\* String::toFloat of a decimal numeral, in thousandths; 0 if s does not
\* start with a number
ToFloat(s) ==
    LET negative == Len(s) >= 1 /\ s[1] = "-"
        first == IF Len(s) >= 1 /\ s[1] \in {"-", "+"} THEN 2 ELSE 1
        whole == ParseDigits(s, first, 0)
        decimals == IF whole[2] <= Len(s) /\ s[whole[2]] = "."
                    THEN ParseDecimals(s, whole[2] + 1, 100) ELSE 0
        magnitude == 1000 * whole[1] + decimals
    IN  IF negative THEN -magnitude ELSE magnitude

\* what the app may write to the waypoint characteristic
WaypointData ==
    { <<"$", "G", "P", "S", ",", "-", "3", "2", ".", "9", "4", "0", ",", "1", "5", "1", ".",
  "7", "1", "8", ",", "4", "5", ".", "2", "*">>,
      <<"$", "G", "P", "S", ",", "1", ".", "5", "*">>,
      <<"G", "P", "S", ",", "1", ",", "2", ",", "3", "*">> }

\* what the app may write to the command characteristic
BleCommands ==
    { <<"N", "A", "V", "_", "E", "N", "A", "B", "L", "E">>,
      <<"N", "A", "V", "_", "D", "I", "S", "A", "B", "L", "E">>,
      <<"S", "T", "A", "R", "T", "_", "C", "A", "L">>,
      <<"S", "T", "O", "P", "_", "C", "A", "L">>,
      <<"P", "I", "N", "G">> }

\* BluetoothController::sendCommandResponse: what it writes to the
\* calibration data characteristic
sendCommandResponse(command, status) ==
    <<"{", "\"", "c", "m", "d", "\"", ":", "\"">> \o command
    \o <<"\"", ",", "\"", "s", "t", "a", "t", "u", "s", "\"", ":", "\"">> \o status
    \o <<"\"", "}">>

\* BluetoothController::processCommand
processCommand(command) ==
    IF command = <<"N", "A", "V", "_", "E", "N", "A", "B", "L", "E">>
    THEN IF navigationCallback
         THEN [callback |-> <<"navigation", TRUE>>,
               response |-> sendCommandResponse(command, <<"O", "K">>)]
         ELSE [callback |-> <<>>, response |-> <<>>]
    ELSE IF command = <<"N", "A", "V", "_", "D", "I", "S", "A", "B", "L", "E">>
    THEN IF navigationCallback
         THEN [callback |-> <<"navigation", FALSE>>,
               response |-> sendCommandResponse(command, <<"O", "K">>)]
         ELSE [callback |-> <<>>, response |-> <<>>]
    ELSE IF command = <<"S", "T", "A", "R", "T", "_", "C", "A", "L">>
         \/ command = <<"S", "T", "O", "P", "_", "C", "A", "L">>
    THEN [callback |-> <<>>, response |-> sendCommandResponse(command, <<"O", "K">>)]
    ELSE [callback |-> <<>>,
          response |-> sendCommandResponse(command,
                          <<"E", "R", "R", "_", "U", "N", "K", "N", "O", "W", "N", "_", "C", "O", "M", "M", "A",
  "N", "D">>)]

\* BluetoothController::onCommandReceived
onCommandReceived(data) ==
    IF Len(data) > 0 THEN processCommand(data) ELSE [callback |-> <<>>, response |-> <<>>]

\* BluetoothController::onWaypointReceived: the callback it makes
onWaypointReceived(waypointData) ==
    IF Len(waypointData) > 0
       /\ StartsWith(waypointData, <<"$", "G", "P", "S", ",">>)
       /\ EndsWith(waypointData, "*")
    THEN LET firstComma == IndexOf(waypointData, ",", 0)
             secondComma == IndexOf(waypointData, ",", firstComma + 1)
             thirdComma == IndexOf(waypointData, ",", secondComma + 1)
             asterisk == IndexOf(waypointData, "*", 0)
         IN  IF firstComma > 0 /\ secondComma > 0 /\ thirdComma > 0 /\ asterisk > 0
                /\ waypointCallback
             THEN <<"waypoint",
                    ToFloat(Substring(waypointData, firstComma + 1, secondComma)),
                    ToFloat(Substring(waypointData, secondComma + 1, thirdComma))>>
             ELSE <<>>
    ELSE <<>>

\* what BLE.poll() may find: nothing, a central connecting, the central
\* disconnecting or writing a characteristic
BleEvents ==
    { [type |-> t, data |-> <<>>] : t \in {"none", "connect", "disconnect"} }
    \cup { [type |-> "waypoint", data |-> d] : d \in WaypointData }
    \cup { [type |-> "command", data |-> d] : d \in BleCommands }
    \cup { [type |-> "config", data |-> <<"{", "}">>] }

\* an update() that may be entered while sendStatus is writing fragments
PollAllowed_Anytime == TRUE

\* update() is called from the sketch's loop, as sendStatus is:
\* sendFragmentedMessage's loop calls sendFragment() and delay() only, and
\* update() polls after sendStatus has returned
PollAllowed == blePc = "idle"

\* BluetoothController::update, with the handlers its BLE.poll() runs;
\* `elapsed` says that more than 5000 ms passed since the last advertise check
BleUpdate(event, elapsed) ==
    /\ PollAllowed
    /\ lastBle' = "update"
    /\ LET base == IF blePc = "idle" THEN <<>> ELSE statusWrites
       IN  IF ~bleInitialized
           THEN /\ event.type = "none"
                /\ ~elapsed
                /\ handled' = NoEvent
                /\ statusWrites' = base
                /\ UNCHANGED <<connected, advertising, effectiveMTU, negotiatedMTU>>
           ELSE /\ event.type = "connect" => ~connected
                /\ event.type \in {"disconnect", "waypoint", "command", "config"} => connected
                /\ IF event.type = "connect"
                   THEN \* onConnect
                        /\ connected' = TRUE
                        /\ negotiatedMTU' = updateEffectiveMTU(185)[1]
                        /\ effectiveMTU' = updateEffectiveMTU(185)[2]
                        /\ statusWrites' = Append(base, WriteValue("probe", createTestJSON(200)))
                        /\ advertising' = FALSE
                        /\ handled' = [NoEvent EXCEPT !.event = "connect"]
                   ELSE IF event.type = "disconnect"
                   THEN \* onDisconnect
                        /\ connected' = FALSE
                        /\ negotiatedMTU' = 23
                        /\ effectiveMTU' = 20
                        /\ statusWrites' = base
                        /\ advertising' = TRUE
                        /\ handled' = [NoEvent EXCEPT !.event = "disconnect"]
                   ELSE /\ handled' =
                             IF event.type = "waypoint"
                             THEN [event |-> "waypoint",
                                   callback |-> onWaypointReceived(event.data),
                                   response |-> <<>>]
                             ELSE IF event.type = "command"
                             THEN [event |-> "command",
                                   callback |-> onCommandReceived(event.data).callback,
                                   response |-> onCommandReceived(event.data).response]
                             ELSE [NoEvent EXCEPT !.event = event.type]
                        /\ statusWrites' = base
                        /\ advertising' = IF ~connected /\ elapsed THEN TRUE ELSE advertising
                        /\ UNCHANGED <<connected, effectiveMTU, negotiatedMTU>>
    /\ UNCHANGED <<bleInitialized, navigationCallback, waypointCallback, blePc,
                   totalFragments, seq, sent>>
    /\ calibrationWrite' = <<>>
    /\ UNCHANGED lastStatusJson
    /\ UNCHANGED nonBleVars

(***************************************************************************)
(* BluetoothController::createStatusJSON.  A float that is printed with d  *)
(* decimals is an integer count of 10^-d.                                  *)
(***************************************************************************)
\* the decimal digits of n >= 0
RECURSIVE DecimalDigits(_)
DecimalDigits(n) ==
    IF n < 10 THEN <<Digits[n + 1]>> ELSE Append(DecimalDigits(n \div 10), Digits[(n % 10) + 1])

RECURSIVE Pow10(_)
Pow10(d) == IF d = 0 THEN 1 ELSE 10 * Pow10(d - 1)

\* the last d decimal digits of n >= 0, with leading zeros
RECURSIVE PaddedDigits(_, _)
PaddedDigits(n, d) ==
    IF d = 0 THEN <<>> ELSE Append(PaddedDigits(n \div 10, d - 1), Digits[(n % 10) + 1])

\* String(int)
StringOfInt(n) == IF n < 0 THEN <<"-">> \o DecimalDigits(-n) ELSE DecimalDigits(n)

\* String(float, decimalPlaces), the float being v / 10^decimalPlaces
StringOfFloat(v, decimalPlaces) ==
    LET magnitude == IF v < 0 THEN -v ELSE v
    IN  (IF v < 0 THEN <<"-">> ELSE <<>>)
        \o DecimalDigits(magnitude \div Pow10(decimalPlaces))
        \o <<".">> \o PaddedDigits(magnitude % Pow10(decimalPlaces), decimalPlaces)

\* BluetoothController::createStatusJSON, before its final validation
StatusJSON(gps, nav, heading) ==
    LET lat == IF gps.latitude >= -90000000 /\ gps.latitude <= 90000000
               THEN gps.latitude ELSE 0
        lon == IF gps.longitude >= -180000000 /\ gps.longitude <= 180000000
               THEN gps.longitude ELSE 0
        validHeading == IF heading >= 0 /\ heading <= 3600 THEN heading ELSE 0
    IN  <<"{">>
        \o <<"\"", "h", "a", "s", "_", "f", "i", "x", "\"", ":">>
        \o (IF gps.hasFix THEN <<"t", "r", "u", "e">> ELSE <<"f", "a", "l", "s", "e">>)
        \o <<",">>
        \o <<"\"", "s", "a", "t", "e", "l", "l", "i", "t", "e", "s", "\"", ":">> \o StringOfInt(gps.satellites) \o <<",">>
        \o <<"\"", "c", "u", "r", "r", "e", "n", "t", "L", "a", "t", "\"", ":">> \o StringOfFloat(lat, 6) \o <<",">>
        \o <<"\"", "c", "u", "r", "r", "e", "n", "t", "L", "o", "n", "\"", ":">> \o StringOfFloat(lon, 6) \o <<",">>
        \o <<"\"", "a", "l", "t", "i", "t", "u", "d", "e", "\"", ":">> \o StringOfFloat(gps.altitude, 1) \o <<",">>
        \o <<"\"", "s", "p", "e", "e", "d", "_", "k", "n", "o", "t", "s", "\"", ":">> \o StringOfFloat(gps.speedKnots, 2) \o <<",">>
        \o <<"\"", "t", "i", "m", "e", "\"", ":", "\"">> \o gps.timeString \o <<"\"", ",">>
        \o <<"\"", "d", "a", "t", "e", "\"", ":", "\"">> \o gps.dateString \o <<"\"", ",">>
        \o <<"\"", "h", "d", "o", "p", "\"", ":">> \o StringOfFloat(gps.hdop, 2) \o <<",">>
        \o <<"\"", "v", "d", "o", "p", "\"", ":">> \o StringOfFloat(gps.vdop, 2) \o <<",">>
        \o <<"\"", "p", "d", "o", "p", "\"", ":">> \o StringOfFloat(gps.pdop, 2) \o <<",">>
        \o <<"\"", "h", "e", "a", "d", "i", "n", "g", "\"", ":">> \o StringOfFloat(validHeading, 1) \o <<",">>
        \o <<"\"", "d", "i", "s", "t", "a", "n", "c", "e", "\"", ":">> \o StringOfFloat(nav.distanceToTarget, 1) \o <<",">>
        \o <<"\"", "b", "e", "a", "r", "i", "n", "g", "\"", ":">> \o StringOfFloat(nav.bearingToTarget, 1)
        \o (IF nav.mode # "IDLE" /\ (nav.targetLatitude # 0 \/ nav.targetLongitude # 0)
            THEN <<",", "\"", "t", "a", "r", "g", "e", "t", "L", "a", "t", "\"", ":">> \o StringOfFloat(nav.targetLatitude, 6)
                 \o <<",", "\"", "t", "a", "r", "g", "e", "t", "L", "o", "n", "\"", ":">> \o StringOfFloat(nav.targetLongitude, 6)
            ELSE <<",", "\"", "t", "a", "r", "g", "e", "t", "L", "a", "t", "\"", ":", "n", "u", "l",
  "l", ",", "\"", "t", "a", "r", "g", "e", "t", "L", "o", "n", "\"", ":", "n", "u",
  "l", "l">>)
        \o <<"}">>

\* BluetoothController::createStatusJSON
createStatusJSON(gps, nav, heading) ==
    IF ~isValidCompleteJSON(Str(StatusJSON(gps, nav, heading)))
    THEN createEssentialStatusJSON
    ELSE Str(StatusJSON(gps, nav, heading))

\* the time strings a GPSData may hold: none, a time of day, and what a garbled
\* sentence may leave: a quote, a backslash, braces, "true."
TimeStrings ==
    { <<>>, <<"1", "2", "3", "5", "1", "9">>, <<"\"">>, <<"\\">>, <<"}">>, <<"{">>,
      <<"t", "r", "u", "e", ".">> }

StatusGps ==
    { [hasFix |-> f, satellites |-> n, latitude |-> la, longitude |-> 151718029,
       altitude |-> 452, speedKnots |-> 0, timeString |-> t,
       dateString |-> <<"0", "1", "0", "1", "2", "5">>,
       hdop |-> 120, vdop |-> 99900, pdop |-> 150] :
          f \in BOOLEAN, n \in {0, 7}, la \in {0, -32940931, 91000000}, t \in TimeStrings }

StatusNav ==
    { [mode |-> m, targetLatitude |-> t[1], targetLongitude |-> t[2],
       distanceToTarget |-> d, bearingToTarget |-> 905] :
          m \in {"IDLE", "NAVIGATING"}, t \in { <<0, 0>>, <<-33000000, 151000000>> },
          d \in {0, 12345} }

StatusHeadings == {0, 2700, 3700}

\* every text of at most MaxText characters over the given alphabet
RECURSIVE TextsOver(_, _)
TextsOver(alphabet, n) ==
    IF n = 0 THEN { <<>> }
    ELSE LET shorter == TextsOver(alphabet, n - 1)
         IN  shorter \cup { Append(t, c) : t \in shorter, c \in alphabet }

MaxText == 5

\* the texts isValidCompleteJSON is given: every text of braces, quotes,
\* backslashes and a letter up to MaxText characters, texts with the fragments
\* "false.", "true." and "null." and without, a padded text, and the fallback
JsonTexts ==
    { Str(t) : t \in TextsOver({"{", "}", "\"", "\\", "a"}, MaxText) }
    \cup { Str(<<"{", "\"", "a", "\"", ":", "t", "r", "u", "e", ".", "}">>),
           Str(<<"{", "\"", "a", "\"", ":", "f", "a", "l", "s", "e", ".", "5", "}">>),
           Str(<<"{", "\"", "a", "\"", ":", "n", "u", "l", "l", ".", "}">>),
           Str(<<"{", "\"", "a", "\"", ":", "t", "r", "u", "e", ",", "\"", "b", "\"", ":", "n", "u",
  "l", "l", "}">>),
           Str(<<"{", "\"", "a", "\"", ":", "\"", "}", "\"", ",", "\"", "b", "\"", ":", "{", "\"",
  "c", "\"", ":", "\"", "\\", "\"", "\"", "}", "}">>),
           createTestJSON(40),
           createEssentialStatusJSON }

\* one call of isValidCompleteJSON, createEssentialStatusJSON or
\* createStatusJSON, not yet made
InitJsonCall ==
    /\ \/ /\ fn = "isValidCompleteJSON"
          /\ args \in { <<t>> : t \in JsonTexts }
       \/ /\ fn = "createEssentialStatusJSON"
          /\ args = <<>>
       \/ /\ fn = "createStatusJSON"
          /\ args \in StatusGps \X StatusNav \X StatusHeadings
    /\ loopAngle = <<0, 0>>
    /\ upc = "call"
    /\ result = <<>>

IsValidCompleteJSON ==
    /\ upc = "call"
    /\ fn = "isValidCompleteJSON"
    /\ result' = <<isValidCompleteJSON(args[1])>>
    /\ upc' = "done"
    /\ UNCHANGED <<fn, args, loopAngle, rfVars, navVars, helmVars, bleVars>>

CreateEssentialStatusJSON ==
    /\ upc = "call"
    /\ fn = "createEssentialStatusJSON"
    /\ result' = <<createEssentialStatusJSON>>
    /\ upc' = "done"
    /\ UNCHANGED <<fn, args, loopAngle, rfVars, navVars, helmVars, bleVars>>

CreateStatusJSON ==
    /\ upc = "call"
    /\ fn = "createStatusJSON"
    /\ result' = <<createStatusJSON(args[1], args[2], args[3])>>
    /\ upc' = "done"
    /\ UNCHANGED <<fn, args, loopAngle, rfVars, navVars, helmVars, bleVars>>

NextJson ==
    \/ IsValidCompleteJSON
    \/ CreateEssentialStatusJSON
    \/ CreateStatusJSON

(***************************************************************************)
(* BluetoothController: broadcastStatus and sendCalibrationData.           *)
(***************************************************************************)
\* what broadcastStatus is given: a fix, a navigation state and a heading
BroadcastInputs ==
    { <<g, n, h>> :
        g \in { x \in StatusGps : /\ x.hasFix /\ x.satellites = 7 /\ x.latitude = -32940931
                                  /\ x.timeString = <<"1", "2", "3", "5", "1", "9">> },
        n \in { x \in StatusNav : /\ x.mode = "NAVIGATING" /\ x.targetLatitude # 0
                                  /\ x.distanceToTarget = 12345 },
        h \in {2700} }

\* createStatusJSON of each of them
BroadcastJSON == [b \in BroadcastInputs |-> createStatusJSON(b[1], b[2], b[3])]

\* what sendCalibrationData is given: a JSON text, and one that is not
CalibrationPayloads ==
    { Str(<<"{", "\"", "x", "\"", ":", "1", "}">>), Str(<<"{", "\"", "x">>) }

\* a sendCalibrationData() that does not look at the connection
CalibrationAllowed_WhenInitialized == bleInitialized

\* BluetoothController::sendCalibrationData: "if (!initialized || !connected) return"
CalibrationAllowed == bleInitialized /\ connected

\* BluetoothController::sendCalibrationData
SendCalibrationData(jsonData) ==
    /\ blePc = "idle"
    /\ calibrationWrite' = IF CalibrationAllowed THEN <<jsonData>> ELSE <<>>
    /\ handled' = NoEvent
    /\ lastBle' = "sendCalibrationData"
    /\ UNCHANGED <<bleInitialized, connected, advertising, effectiveMTU, negotiatedMTU,
                   navigationCallback, waypointCallback, blePc, totalFragments, seq,
                   lastStatusJson, sent, statusWrites>>
    /\ UNCHANGED nonBleVars

\* BluetoothController::broadcastStatus, with the sendStatus it calls; `due`
\* says that 1000 ms or more passed since the static lastSendTime.  The static
\* lastStatusJson, which only broadcastStatus reads, is assigned here although
\* the code assigns it when sendStatus has returned.
BroadcastStatus(gps, nav, heading, due) ==
    /\ blePc = "idle"
    /\ handled' = NoEvent
    /\ lastBle' = "broadcastStatus"
    /\ calibrationWrite' = <<>>
    /\ IF ~bleInitialized \/ ~connected
       THEN UNCHANGED <<bleInitialized, connected, advertising, effectiveMTU, negotiatedMTU,
                        navigationCallback, waypointCallback, blePc, totalFragments, seq,
                        lastStatusJson, sent, statusWrites>>
       ELSE LET statusJson == BroadcastJSON[<<gps, nav, heading>>]
            IN  IF statusJson # lastStatusJson \/ due
                THEN /\ sendStatus(statusJson)
                     /\ lastStatusJson' = statusJson
                ELSE UNCHANGED <<bleInitialized, connected, advertising, effectiveMTU,
                                 negotiatedMTU, navigationCallback, waypointCallback, blePc,
                                 totalFragments, seq, lastStatusJson, sent, statusWrites>>
    /\ UNCHANGED nonBleVars

NextBle ==
    \/ \E ok \in BOOLEAN : BleBegin(ok)
    \/ SetCallbacks
    \/ \E event \in BleEvents, elapsed \in BOOLEAN : BleUpdate(event, elapsed)
    \/ \E jsonData \in Payloads : SendStatus(jsonData)
    \/ SendFragment
    \/ \E b \in BroadcastInputs, due \in BOOLEAN : BroadcastStatus(b[1], b[2], b[3], due)
    \/ \E jsonData \in CalibrationPayloads : SendCalibrationData(jsonData)

(***************************************************************************)
(* The specifications.                                                     *)
(***************************************************************************)
\* the radio controllers, each in its own sketch
InitRadio == InitRF /\ InitNav /\ InitHelm /\ InitNoCall /\ InitBle

\* the Helm firmware
Init == InitRF /\ driver = "DeviceRFController" /\ InitNav /\ InitHelm /\ InitNoCall /\ InitBle

SpecRF == InitRadio /\ [][NextRF]_vars

\* the radio controllers with a thread that keeps running: whenever begin()'s
\* wait loop or a transmit loop can take its next step, it does.  The radio
\* is not obliged to set its flag.
ThreadStep == BeginReady \/ TxSync \/ TxHighBit \/ TxLowBit \/ TxGap \/ TxReturn

SpecRFLive == InitRadio /\ [][NextRF]_vars /\ WF_vars(ThreadStep)

SpecNav == Init /\ [][NextNav]_vars

\* the navigation controller driven by the sketch's loop
SpecHelm == Init /\ [][NextHelm]_vars

\* one call of a NavigationUtils function
InitUtil == InitRF /\ driver = "DeviceRFController" /\ InitNav /\ InitHelm /\ InitCall /\ InitBle

SpecUtil == InitUtil /\ [][NextUtil]_vars

\* the Bluetooth controller driven by the sketch's loop
SpecBle == Init /\ [][NextBle]_vars

\* one call of a BluetoothController function that builds or checks a text
InitJson ==
    InitRF /\ driver = "DeviceRFController" /\ InitNav /\ InitHelm /\ InitJsonCall /\ InitBle

SpecJson == InitJson /\ [][NextJson]_vars


(***************************************************************************)
(* Properties of the signal replication engine.                            *)
(***************************************************************************)
\* holds of one frame: a HIGH and a LOW for the sync pulse and for each of the
\* 40 + 50 data bits, and the gap
HoldsPerFrame == 2 * (1 + 40 + 50) + 1

TxPcs == {"sync", "high", "low", "gap", "tail"}

\* the k-th data bit of a command's frame, k in 1..90: codeHigh bit 39 down to
\* bit 0, then codeLow bit 49 down to bit 0
ExpectedBit(cmd, k) ==
    IF k <= 40 THEN DigitBit(CodeHighOf(cmd), 40 - k)
               ELSE DigitBit(CodeLowOf(cmd), 90 - k)

\* position of hold number j inside its frame, 0 .. HoldsPerFrame - 1
FramePos(j) == (j - 1) % HoldsPerFrame

\* the HIGH hold of data pulse k (1..90) of the first frame of a signal
DataPulse(signal, k) == signal[2 * k + 1]

\* a transmit call of DeviceRFController has run and returned
CallDone == driver = "DeviceRFController" /\ pc = "idle" /\ call.ran

\* C1: every frame is one sync pulse followed by exactly 90 data pulses, the
\* 40 bits of codeHigh from bit 39 down to bit 0 and then the 50 bits of codeLow
\* from bit 49 down to bit 0: 91 HIGH pulses per frame, the sync pulse first.
C1_FrameIsSyncThenNinetyBits ==
    driver = "DeviceRFController" =>
    /\ \A j \in 1..Len(emitted) :
          LET p == FramePos(j)
              h == emitted[j]
          IN  /\ (h[1] = "HIGH") <=> (p % 2 = 0 /\ p < HoldsPerFrame - 1)
              /\ (h[1] = "HIGH" /\ p = 0) => h[2] = SYNC_PULSE_HIGH_US
              /\ (h[1] = "HIGH" /\ p > 0) =>
                    h[2] = IF ExpectedBit(call.cmd, p \div 2) = 1
                           THEN LONG_PULSE_HIGH_US ELSE SHORT_PULSE_HIGH_US
    /\ pc = "gap" => Len(emitted) % HoldsPerFrame = HoldsPerFrame - 1

C1_Witness ==
    /\ CallDone
    /\ call.cmd = "LEFT"
    /\ call.n = 2
    /\ Len(emitted) = 2 * HoldsPerFrame
    /\ Cardinality({j \in 1..HoldsPerFrame : emitted[j][1] = "HIGH"}) = 91

\* C2: a data bit 1 is HIGH LONG_PULSE_HIGH_US then LOW LONG_PULSE_LOW_US, a
\* data bit 0 is HIGH SHORT_PULSE_HIGH_US then LOW SHORT_PULSE_LOW_US, the sync
\* pulse is HIGH SYNC_PULSE_HIGH_US then LOW SYNC_PULSE_LOW_US, and no hold
\* inside a frame has any other duration.
C2_PulseTimings ==
    driver = "DeviceRFController" =>
    \A j \in 1..Len(emitted) :
       LET p == FramePos(j)
       IN  (p % 2 = 0 /\ p < HoldsPerFrame - 1) =>
              /\ j + 1 <= Len(emitted)
              /\ IF p = 0
                 THEN /\ emitted[j] = <<"HIGH", SYNC_PULSE_HIGH_US>>
                      /\ emitted[j + 1] = <<"LOW", SYNC_PULSE_LOW_US>>
                 ELSE IF ExpectedBit(call.cmd, p \div 2) = 1
                 THEN /\ emitted[j] = <<"HIGH", LONG_PULSE_HIGH_US>>
                      /\ emitted[j + 1] = <<"LOW", LONG_PULSE_LOW_US>>
                 ELSE /\ emitted[j] = <<"HIGH", SHORT_PULSE_HIGH_US>>
                      /\ emitted[j + 1] = <<"LOW", SHORT_PULSE_LOW_US>>
              /\ {emitted[j][2], emitted[j + 1][2]} \subseteq
                    {SHORT_PULSE_HIGH_US, SHORT_PULSE_LOW_US, LONG_PULSE_HIGH_US,
                     LONG_PULSE_LOW_US, SYNC_PULSE_HIGH_US, SYNC_PULSE_LOW_US}

C2_Witness ==
    /\ CallDone
    /\ call.cmd = "RIGHT"
    /\ call.n >= 1
    /\ \E j \in 1..Len(emitted) : emitted[j] = <<"HIGH", LONG_PULSE_HIGH_US>>
    /\ \E j \in 1..Len(emitted) : emitted[j] = <<"HIGH", SHORT_PULSE_HIGH_US>>

\* C3: an initialized transmitRight(n)/transmitLeft(n), n >= 1, emits exactly n
\* complete frames one after another, each one (the last too) followed by a LOW
\* gap of FRAME_GAP_US, and has returned only after the last gap, the pin LOW.
C3_FramesAndGaps ==
    driver = "DeviceRFController" =>
    /\ (pc \in {"tail", "idle"} /\ call.ran) =>
          /\ Len(emitted) = call.n * HoldsPerFrame
          /\ \A f \in 1..call.n :
                /\ emitted[(f - 1) * HoldsPerFrame + 1] = <<"HIGH", SYNC_PULSE_HIGH_US>>
                /\ emitted[f * HoldsPerFrame] = <<"LOW", FRAME_GAP_US>>
    /\ CallDone => dataPin = "LOW"
    /\ (pc \in TxPcs \ {"tail"}) => i < repeatCount

C3_Witness ==
    /\ CallDone
    /\ call.cmd = "RIGHT"
    /\ call.n = 2
    /\ emitted[Len(emitted)] = <<"LOW", FRAME_GAP_US>>
    /\ emitted[HoldsPerFrame] = <<"LOW", FRAME_GAP_US>>

\* C4: in each of the three controllers that have a begin(), while begin()
\* has never returned success, a transmit call returns at once: no
\* transmission is in progress and the call emitted nothing.
C4_NoTransmitBeforeInit ==
    (driver # "transmitter_test" /\ ~everOk) =>
        /\ pc \notin TxPcs
        /\ ~call.ran
        /\ emitted = <<>>

C4_Witness ==
    /\ ~everOk
    /\ lastBegin = "fail"
    /\ call.cmd = "LEFT"
    /\ call.n = 2
    /\ ~call.ran
    /\ emitted = <<>>

\* C5 (as claimed): after a begin() that returned failure no transmit call
\* proceeds until a later begin() returns success, also when the failing
\* begin() follows a successful one.
C5_NoTransmitAfterFailedBegin == lastBegin = "fail" => pc \notin TxPcs

\* C6 (as claimed): the sequences sent for LEFT and for RIGHT are the same in
\* their first 80 data bits and differ only within the last 10.
C6_DifferOnlyInLastTen ==
    (CallDone /\ call.n >= 1 /\ ref.n >= 1 /\ ref.cmd \in Commands /\ ref.cmd # call.cmd) =>
        \A k \in 1..80 : DataPulse(emitted, k) = DataPulse(ref.signal, k)

\* C6 (amended): the sequences sent for LEFT and for RIGHT are the same in
\* their first 75 data bits and differ only within the last 15 (bits 14..0 of
\* codeLow); highBits is the same for both commands.
C6_DifferOnlyInLastFifteen ==
    /\ (CallDone /\ call.n >= 1 /\ ref.n >= 1 /\ ref.cmd \in Commands /\ ref.cmd # call.cmd) =>
          \A k \in 1..75 : DataPulse(emitted, k) = DataPulse(ref.signal, k)
    /\ pc \in TxPcs => codeHigh = RIGHT_CODE_HIGH /\ codeHigh = LEFT_CODE_HIGH

C6_Witness ==
    /\ CallDone
    /\ call.cmd = "LEFT"
    /\ ref.cmd = "RIGHT"
    /\ call.n >= 1
    /\ ref.n >= 1
    /\ DataPulse(emitted, 76) # DataPulse(ref.signal, 76)
    /\ \E k \in 81..90 : DataPulse(emitted, k) # DataPulse(ref.signal, k)

\* C7 (as claimed): codeHigh < 2^40 and codeLow < 2^50, so every set bit of
\* the stored constants is on the wire as a long pulse of the frame.
C7_NoConstantBitDropped ==
    pc = "gap" =>
       LET base == i * HoldsPerFrame
       IN  /\ \A b \in 0..63 :
                DigitBit(codeHigh, b) = 1 =>
                   /\ b < 40
                   /\ DataPulse(SubSeq(emitted, base + 1, Len(emitted)), 40 - b)[2]
                         = LONG_PULSE_HIGH_US
           /\ \A b \in 0..63 :
                DigitBit(codeLow, b) = 1 =>
                   /\ b < 50
                   /\ DataPulse(SubSeq(emitted, base + 1, Len(emitted)), 90 - b)[2]
                         = LONG_PULSE_HIGH_US

\* C8: two completed calls of the same command with the same repeatCount, made
\* from any two initialized states, made the same sequence of holds.
C8_Deterministic ==
    (CallDone /\ ref.cmd = call.cmd /\ ref.n = call.n) => emitted = ref.signal

C8_Witness ==
    /\ CallDone
    /\ ref.cmd = call.cmd
    /\ ref.n = call.n
    /\ call.n >= 1
    /\ ref.mode # call.mode
    /\ emitted = ref.signal

(***************************************************************************)
(* Properties of the navigation controller.                                *)
(***************************************************************************)
\* C9: a new NavigationManager is IDLE, and after setNavigationEnabled(false)
\* or clearTarget() the mode is IDLE and navigation is disabled.
C9_IdleWhenNewDisabledOrCleared ==
    /\ lastOp = "new" => mode = "IDLE"
    /\ lastOp \in {"disable", "clearTarget"} => mode = "IDLE" /\ ~navigationEnabled

C9_Witness ==
    /\ lastOp = "disable"
    /\ mode = "IDLE"
    /\ hasValidTarget
    /\ distanceToTarget > MIN_DISTANCE_METERS

\* C10 (as claimed): mode == NAVIGATING implies that navigation is enabled and
\* that the target is not (0,0).
C10_NavigatingHasTarget ==
    mode = "NAVIGATING" => navigationEnabled /\ hasValidTarget

\* the fix quality upd records, as update() judged it
UpdateRan == upd.branch # "none"
UpdateFixValid ==
    isGpsAccuracyValid([hasFix |-> upd.quality[1], satellites |-> upd.quality[2],
                        hdop |-> upd.quality[3]])

\* C11 (as claimed): once mode is ARRIVED, an update() with a valid fix leaves
\* it ARRIVED, whatever distance the fix yields.
C11_ArrivedIsSticky ==
    (UpdateRan /\ upd.from = "ARRIVED" /\ UpdateFixValid) => mode = "ARRIVED"

\* C12: after an update() made with navigation enabled, mode not IDLE and a
\* valid fix, mode is ARRIVED if the computed distanceToTarget is <= 5 m and
\* NAVIGATING otherwise: 100 m away gives NAVIGATING, 4 m away gives ARRIVED,
\* and 4.5 m away from ARRIVED leaves ARRIVED.
C12_ModeFollowsDistance ==
    (UpdateRan /\ upd.was /\ upd.from # "IDLE" /\ UpdateFixValid) =>
        /\ upd.branch = "compute"
        /\ mode = IF distanceToTarget <= MIN_DISTANCE_METERS THEN "ARRIVED" ELSE "NAVIGATING"
        /\ distanceToTarget = 100 * 10 => mode = "NAVIGATING"
        /\ distanceToTarget \in {4 * 10, 45} => mode = "ARRIVED"

C12_Witness ==
    /\ UpdateRan
    /\ upd.from = "ARRIVED"
    /\ UpdateFixValid
    /\ distanceToTarget = 45
    /\ mode = "ARRIVED"

\* C13: an update() given an invalid fix while navigation is enabled and the
\* preceding update() saw a valid fix leaves mode IDLE and navigation
\* disabled, and computes no distance, bearing or relative angle.
C13_LossOfFixInterlock ==
    [][ (upd'.branch # "none" /\ prevFixValid /\ navigationEnabled /\ ~UpdateFixValid') =>
           /\ mode' = "IDLE"
           /\ ~navigationEnabled'
           /\ UNCHANGED <<distanceToTarget, bearingToTarget, relativeAngle>> ]_vars

C13_Witness ==
    /\ upd.branch = "interlock"
    /\ upd.from = "NAVIGATING"
    /\ upd.quality = <<TRUE, 2, 12>>
    /\ mode = "IDLE"
    /\ ~navigationEnabled
    /\ distanceToTarget = 100 * 10

\* a fix as the specification judges it: <<hasFix, satellites, hdop>>
ClaimedValid(q) ==
    /\ q[1]
    /\ q[2] >= 4
    /\ (0 < q[3] /\ q[3] < HDOP_LIMIT) \/ q[3] = HDOP_UNKNOWN

\* C14 (as claimed): a fix is treated as valid exactly when hasFix, satellites
\* >= 4 and either 0 < hdop < 5.0 or hdop = 99.9: update() goes on to its
\* calculations only with such a fix, and canNavigate() and
\* shouldCorrectHeading() are false for every other fix.
C14_ValidExactlyWhen ==
    /\ (UpdateRan /\ upd.was /\ upd.from # "IDLE") =>
          (upd.branch = "compute" <=> ClaimedValid(upd.quality))
    /\ \A g \in GpsData :
          ~ClaimedValid(<<g.hasFix, g.satellites, g.hdop>>) =>
             /\ ~canNavigate(g)
             /\ \A h \in Headings : ~shouldCorrectHeading(g, h)

\* C15: an update() on which the interlock does not fire and that finds mode
\* IDLE, navigation disabled or the fix invalid changes none of mode, target,
\* distanceToTarget, bearingToTarget, relativeAngle, navigationEnabled.
C15_UpdateNoOp ==
    [][ ( /\ upd'.branch # "none"
          /\ ~(lastGpsFix /\ ~UpdateFixValid' /\ navigationEnabled)
          /\ (mode = "IDLE" \/ ~navigationEnabled \/ ~UpdateFixValid') ) =>
           UNCHANGED <<mode, targetLatitude, targetLongitude, distanceToTarget,
                       bearingToTarget, relativeAngle, navigationEnabled>> ]_vars

C15_Witness ==
    /\ upd.branch = "skip"
    /\ upd.from = "NAVIGATING"
    /\ upd.was
    /\ ~UpdateFixValid
    /\ mode = "NAVIGATING"
    /\ navigationEnabled
    /\ distanceToTarget = 100 * 10

\* C16: in every reachable state and for every fix and heading,
\* shouldCorrectHeading() is true only if mode is NAVIGATING and
\* |relativeAngle| > HEADING_TOLERANCE; it is never true in IDLE or ARRIVED.
C16_CorrectOnlyWhileNavigating ==
    \A g \in GpsData, h \in Headings :
        shouldCorrectHeading(g, h) =>
            /\ mode = "NAVIGATING"
            /\ Abs(relativeAngle) > HEADING_TOLERANCE

C16_Witness ==
    /\ mode = "ARRIVED"
    /\ Abs(relativeAngle) > HEADING_TOLERANCE
    /\ hasValidTarget
    /\ navigationEnabled
    /\ \A g \in GpsData, h \in Headings : ~shouldCorrectHeading(g, h)

RelativeAngleDone == fn = "calculateRelativeAngle" /\ upc = "done"

\* C18 (as claimed): for heading and bearing in [0, 360),
\* calculateRelativeAngle(heading, bearing) lies in (-180, 180]: it is never
\* -180 and never outside that range.
C18_RelativeAngleHalfOpen ==
    RelativeAngleDone => (-180 < result[1] /\ result[1] <= 180)

\* C19: for heading and bearing in [0, 360), calculateRelativeAngle(heading,
\* bearing) is congruent to bearing - heading modulo 360 and no congruent
\* value is smaller in absolute value; (90, 45) gives -45, (10, 350) gives -20.
C19_RelativeAngleCongruentSmallest ==
    RelativeAngleDone =>
        /\ result[2] = 0
        /\ (result[1] - (args[2] - args[1])) % 360 = 0
        /\ \A k \in -2..2 : Abs(result[1]) <= Abs(result[1] + 360 * k)
        /\ args = <<90, 45>> => result[1] = -45
        /\ args = <<10, 350>> => result[1] = -20

C19_Witness ==
    /\ RelativeAngleDone
    /\ args = <<10, 350>>
    /\ result = <<-20, 0>>

\* C20 (as claimed): for every finite angle normalizeAngle terminates, every
\* pass of its loops bringing the angle nearer to [0, 360), and returns the
\* value in [0, 360) congruent to the input modulo 360; 450 gives 90, -45
\* gives 315, 720 gives 0.
C20_NormalizeAngleTerminates ==
    /\ (upc = "whileNegative" /\ FloatNegative(loopAngle)) =>
          FloatAdd(loopAngle, 360) # loopAngle
    /\ (upc = "whileLarge" /\ FloatAtLeast360(loopAngle)) =>
          FloatAdd(loopAngle, -360) # loopAngle
    /\ (fn = "normalizeAngle" /\ upc = "done") =>
          /\ result[2] = 0
          /\ 0 <= result[1] /\ result[1] < 360
          /\ args[1][2] = 0 => (result[1] - args[1][1]) % 360 = 0
          /\ args[1] = <<450, 0>> => result[1] = 90
          /\ args[1] = <<-45, 0>> => result[1] = 315
          /\ args[1] = <<720, 0>> => result[1] = 0

\* C21: a target of exactly (0,0) is treated as absent: hasValidTarget() is
\* false exactly when the target latitude and longitude are both 0, and with
\* that target, as after setTarget(0,0), canNavigate() and
\* shouldCorrectHeading() are false for every fix and heading, whatever the
\* enable state.
C21_ZeroTargetIsAbsent ==
    /\ hasValidTarget <=> ~(targetLatitude = 0 /\ targetLongitude = 0)
    /\ (targetLatitude = 0 /\ targetLongitude = 0) =>
          \A g \in GpsData, h \in Headings :
              ~canNavigate(g) /\ ~shouldCorrectHeading(g, h)

\* setTarget(0,0) was called while navigation was enabled
C21_Witness ==
    /\ lastOp = "setTarget"
    /\ targetLatitude = 0 /\ targetLongitude = 0
    /\ navigationEnabled
    /\ mode = "NAVIGATING"

\* a sendStatus call made while initialized and connected has returned
SendStatusReturned == lastBle = "sendStatus" /\ blePc = "idle" /\ sent.live

\* C22: sendStatus never transmits an unvalidated buffer: for every call made
\* while initialized and connected, if the payload fails isValidCompleteJSON
\* then exactly one write is made to the status characteristic and it carries
\* the fallback payload; no part of the rejected payload, whole or as a
\* fragment, is written.
C22_InvalidPayloadGivesFallback ==
    (lastBle = "sendStatus" /\ sent.live /\ ~isValidCompleteJSON(sent.jsonData)) =>
        /\ blePc = "idle"
        /\ Len(statusWrites) = 1
        /\ statusWrites[1].header = <<>>
        /\ Data(statusWrites[1]) = createEssentialStatusJSON.head
        /\ \A k \in 1..Len(statusWrites) : statusWrites[k].text # "jsonData"

\* a connected sendStatus was given 500 characters that end inside a string
C22_Witness ==
    /\ SendStatusReturned
    /\ Length(sent.jsonData) = 500
    /\ ~isValidCompleteJSON(sent.jsonData)
    /\ sent.mtu = 182
    /\ Len(statusWrites) = 1

\* the characters of a text
Flat(jsonData) == [k \in 1..Length(jsonData) |-> At(jsonData, k)]

\* s[k] comes right after a backslash that escapes it
RECURSIVE EscapedAt(_, _)
EscapedAt(s, k) == k > 1 /\ s[k - 1] = "\\" /\ ~EscapedAt(s, k - 1)

\* s[k] is a double quote that opens or closes a string
QuoteAt(s, k) == s[k] = "\"" /\ ~EscapedAt(s, k)

\* s[k] is inside a double-quoted string
InStringAt(s, k) == Cardinality({j \in 1..(k - 1) : QuoteAt(s, j)}) % 2 = 1

\* how many times the character c stands outside strings, unescaped
CountOutside(s, c) ==
    Cardinality({k \in 1..Len(s) : s[k] = c /\ ~EscapedAt(s, k) /\ ~InStringAt(s, k)})

\* what C23 says is accepted
ClaimedAccepted(s) ==
    /\ Len(s) > 0
    /\ s[1] = "{"
    /\ s[Len(s)] = "}"
    /\ ~Contains(s, CorruptFalse) /\ ~Contains(s, CorruptTrue) /\ ~Contains(s, CorruptNull)
    /\ CountOutside(s, "{") = CountOutside(s, "}")

\* the text does not end inside a double-quoted string
StringsClosed(s) == Cardinality({k \in 1..Len(s) : QuoteAt(s, k)}) % 2 = 0

IsValidDone == fn = "isValidCompleteJSON" /\ upc = "done"

\* C23 (as claimed): isValidCompleteJSON accepts exactly the payloads that are
\* non-empty, start with '{', end with '}', contain none of "false.", "true."
\* or "null.", and have as many '{' as '}' when braces inside double-quoted
\* strings are ignored and a backslash escapes the character after it.
C23_AcceptsExactlyClaimed ==
    IsValidDone => (result[1] <=> ClaimedAccepted(Flat(args[1])))

\* C23 (amended): isValidCompleteJSON accepts exactly the payloads that meet
\* the claimed conditions and do not end inside a double-quoted string; every
\* other payload is rejected.
C23_AcceptsClaimedAndClosed ==
    IsValidDone =>
        (result[1] <=> (ClaimedAccepted(Flat(args[1])) /\ StringsClosed(Flat(args[1]))))

\* the text {}"} was rejected: its braces outside strings balance, its string
\* is left open
C23_Witness ==
    /\ IsValidDone
    /\ args[1] = Str(<<"{", "}", "\"", "}">>)
    /\ result = <<FALSE>>

\* C29: the fallback payload is itself valid: the string built by
\* createEssentialStatusJSON passes every check of isValidCompleteJSON, so the
\* string returned by createStatusJSON passes isValidCompleteJSON for every
\* GPS, navigation and heading input.
C29_FallbackIsValid ==
    /\ (fn = "createEssentialStatusJSON" /\ upc = "done") =>
          /\ isValidCompleteJSON(result[1])
          /\ ClaimedAccepted(Flat(result[1])) /\ StringsClosed(Flat(result[1]))
    /\ (fn = "createStatusJSON" /\ upc = "done") =>
          /\ isValidCompleteJSON(result[1])
          /\ ClaimedAccepted(Flat(result[1])) /\ StringsClosed(Flat(result[1]))

\* createStatusJSON was given a time string that is one double quote, and
\* returned the fallback in place of the text it had built
C29_Witness ==
    /\ fn = "createStatusJSON" /\ upc = "done"
    /\ args[1].timeString = <<"\"">>
    /\ args[1].hasFix
    /\ ~isValidCompleteJSON(Str(StatusJSON(args[1], args[2], args[3])))
    /\ result[1] = createEssentialStatusJSON

\* a sendStatus call made while connected with a payload that
\* isValidCompleteJSON accepts is running or has returned
ValidSend == lastBle = "sendStatus" /\ sent.live /\ isValidCompleteJSON(sent.jsonData)

\* the number of fragments the payload of the call needs: ceil(L / (MTU - 4))
FragmentsNeeded == (Length(sent.jsonData) + (sent.mtu - 4) - 1) \div (sent.mtu - 4)

\* C24: for a valid payload of length L sent while connected: if
\* L <= effectiveMTU, sendStatus makes exactly one write carrying the payload
\* unmodified and without a header; if L > effectiveMTU, it writes only
\* header-prefixed fragments (or the fallback), never the whole payload.  The
\* two paths are mutually exclusive for a given call.
C24_WholeOrFragments ==
    ValidSend =>
        IF Length(sent.jsonData) <= sent.mtu
        THEN /\ blePc = "idle"
             /\ Len(statusWrites) = 1
             /\ statusWrites[1].header = <<>>
             /\ statusWrites[1].text = "jsonData"
             /\ Data(statusWrites[1]) = Flat(sent.jsonData)
        ELSE \A k \in 1..Len(statusWrites) :
                \/ /\ statusWrites[k].text = "jsonData"
                   /\ Len(statusWrites[k].header) = 4
                   /\ statusWrites[k].len < Length(sent.jsonData)
                \/ /\ statusWrites[k].text = "fallback"
                   /\ statusWrites[k].header = <<>>

\* 183 characters were sent with effectiveMTU 182 (negotiated 185): two
\* fragments, the second of 5 characters
C24_Witness ==
    /\ ValidSend
    /\ blePc = "idle"
    /\ Length(sent.jsonData) = 183
    /\ sent.mtu = 182
    /\ Len(statusWrites) = 2
    /\ statusWrites[2].len = 5

\* the data of the writes lo .. hi, one after the other
RECURSIVE ConcatData(_, _)
ConcatData(lo, hi) ==
    IF lo > hi THEN <<>>
    ELSE IF lo = hi THEN Data(statusWrites[lo])
    ELSE ConcatData(lo, (lo + hi) \div 2) \o ConcatData(((lo + hi) \div 2) + 1, hi)

\* C25: fragmentation round-trips: for every valid payload of length
\* L > effectiveMTU needing at most 255 fragments, sendFragmentedMessage writes
\* exactly n = ceil(L / (effectiveMTU - 4)) fragments with sequence numbers
\* 0, 1, ..., n-1 in that order, every header carries totalFragments = n and
\* the big-endian 16-bit totalLength = L, and concatenating the fragment
\* payloads in sequence order yields the original payload byte for byte.
C25_FragmentsRoundTrip ==
    (ValidSend /\ Length(sent.jsonData) > sent.mtu /\ FragmentsNeeded <= 255) =>
        /\ Len(statusWrites) <= FragmentsNeeded
        /\ \A k \in 1..Len(statusWrites) :
              /\ statusWrites[k].header =
                     <<k - 1, FragmentsNeeded, Length(sent.jsonData) \div 256,
                       Length(sent.jsonData) % 256>>
              /\ statusWrites[k].len <= sent.mtu - 4
        /\ blePc = "idle" =>
              /\ Len(statusWrites) = FragmentsNeeded
              /\ ConcatData(1, Len(statusWrites)) = Flat(sent.jsonData)

\* 500 characters were sent with effectiveMTU 182: fragments of 178, 178 and
\* 144 characters
C25_Witness ==
    /\ ValidSend
    /\ blePc = "idle"
    /\ Length(sent.jsonData) = 500
    /\ sent.mtu = 182
    /\ Len(statusWrites) = 3
    /\ statusWrites[3].header = <<2, 3, 1, 244>>
    /\ statusWrites[3].len = 144

\* C26 (as claimed): a payload whose length would require more than 255
\* fragments at the current effectiveMTU is rejected: sendFragmentedMessage
\* writes no fragment and returns false, and sendStatus then writes the
\* fallback payload exactly once.
C26_TooManyFragmentsRejected ==
    (ValidSend /\ Length(sent.jsonData) > sent.mtu /\ FragmentsNeeded > 255) =>
        /\ blePc = "idle"
        /\ Len(statusWrites) = 1
        /\ statusWrites[1].text = "fallback"
        /\ statusWrites[1].header = <<>>

\* C27 (as claimed): MTU adaptation raises the limit: after sendStatus sends a
\* whole (unfragmented) valid payload whose length exceeds 80% of
\* effectiveMTU, effectiveMTU is strictly greater for subsequent messages than
\* it was before that send.
C27_AdaptationRaisesMTU ==
    (ValidSend /\ blePc = "idle" /\ Length(sent.jsonData) <= sent.mtu
       /\ 10 * Length(sent.jsonData) > 8 * sent.mtu) => effectiveMTU > sent.mtu

\* C28: the MTU is reset on every disconnect and reconnect: after any
\* onDisconnect, effectiveMTU = 20 and negotiatedMTU = 23 whatever they were
\* before, and immediately after any onConnect effectiveMTU is the same
\* baseline value (182, negotiated 185) whatever the previous connection had
\* reached.
C28_MTUResetOnDisconnectAndConnect ==
    /\ handled.event = "disconnect" =>
          ~connected /\ effectiveMTU = 20 /\ negotiatedMTU = 23
    /\ handled.event = "connect" =>
          connected /\ effectiveMTU = 182 /\ negotiatedMTU = 185
    /\ ~connected => (effectiveMTU = 20 /\ negotiatedMTU = 23)

\* a central connected again after a connection over which a payload above
\* 80% of the MTU had been sent whole
C28_Witness ==
    /\ handled.event = "connect"
    /\ sent.live
    /\ Length(sent.jsonData) = 182
    /\ sent.mtu = 182
    /\ effectiveMTU = 182

\* C30: connect, disconnect, waypoint and command handlers run only
\* synchronously inside the poll made by BluetoothController::update(), never
\* during sendStatus: between the first and last fragment of one message the
\* connected flag and effectiveMTU do not change, and all fragments of that
\* message are written consecutively with no other status write interleaved.
C30_HandlersOnlyInPoll ==
    [][ /\ handled' # NoEvent => (lastBle' = "update" /\ blePc = "idle")
        /\ (connected' # connected \/ effectiveMTU' # effectiveMTU) => lastBle' = "update"
        /\ blePc = "fragments" =>
              /\ connected' = connected
              /\ effectiveMTU' = effectiveMTU
              /\ lastBle' = "sendStatus"
              /\ \/ statusWrites' = statusWrites
                 \/ /\ statusWrites' = Append(statusWrites, statusWrites'[Len(statusWrites')])
                    /\ statusWrites'[Len(statusWrites')].text = "jsonData"
                    /\ statusWrites'[Len(statusWrites')].header[1] = Len(statusWrites) ]_vars

\* the three fragments of a message were written after the poll of an earlier
\* update() had run the connect handler
C30_Witness ==
    /\ lastBle = "sendStatus"
    /\ blePc = "idle"
    /\ connected
    /\ Len(statusWrites) = 3
    /\ \A k \in 1..3 : statusWrites[k].text = "jsonData" /\ statusWrites[k].header[1] = k - 1
    /\ effectiveMTU = sent.mtu


\* C35: in every state reachable by setTarget, setNavigationEnabled,
\* clearTarget and update calls, a mode other than IDLE implies that
\* navigation is enabled: disabling, clearing the target and the fix-loss
\* interlock all force the mode to IDLE.
C35_ActiveModeIsEnabled == mode # "IDLE" => navigationEnabled

\* navigation was switched off, or the interlock fired, while the controller
\* was navigating or had arrived, and the mode is IDLE again
C35_Witness ==
    /\ lastOp \in {"disable", "update"}
    /\ ~navigationEnabled
    /\ mode = "IDLE"
    /\ hasValidTarget
    /\ distanceToTarget > 0

\* C36: in every reachable state, mode ARRIVED implies that the stored
\* distanceToTarget is at most MIN_DISTANCE_METERS (5 m).
C36_ArrivedIsWithinRadius == mode = "ARRIVED" => distanceToTarget <= 5 * 10

\* update() computed a distance inside the arrival radius and set ARRIVED
C36_Witness ==
    /\ lastOp = "update"
    /\ upd.branch = "compute"
    /\ mode = "ARRIVED"
    /\ distanceToTarget > 0
    /\ distanceToTarget <= 5 * 10

\* C33: getHeadingCorrection() is 0 in every state where the mode is not
\* NAVIGATING, whatever relative angle is stored, and is the stored
\* relativeAngle otherwise; a correction is steered by its sign, right when
\* positive and left when negative, and only while navigating.
C33_CorrectionFollowsSign ==
    [][ /\ mode # "NAVIGATING" => getHeadingCorrection = 0
        /\ mode = "NAVIGATING" => getHeadingCorrection = relativeAngle
        /\ (correction' # correction /\ correction'.fired) =>
              /\ mode = "NAVIGATING"
              /\ correction'.command = "RIGHT" <=> getHeadingCorrection > 0
              /\ correction'.command = "LEFT" <=> getHeadingCorrection < 0 ]_vars

\* a correction was steered left on a negative relative angle
C33_Witness ==
    /\ correction.fired
    /\ correction.command = "LEFT"
    /\ mode = "NAVIGATING"
    /\ getHeadingCorrection < 0
    /\ getHeadingCorrection = relativeAngle


C37_InterlockRearms ==
    [][ (upd'.branch # "none" /\ fixLost /\ navigationEnabled /\ ~prevFixValid') =>
           ~navigationEnabled' ]_vars


\* C32: every write that sendStatus issues to the status characteristic, the
\* whole payload, a fragment with its 4-byte header, or the fallback payload,
\* is at most effectiveMTU bytes long; a fragment's data is at most
\* effectiveMTU - 4 bytes, and exactly that many in every fragment but the
\* last.
C32_WritesFitMTU ==
    \A k \in 1..Len(statusWrites) :
        LET w == statusWrites[k]
        IN  w.text \in {"jsonData", "fallback"} =>
              /\ Len(w.header) + w.len <= sent.mtu
              /\ w.header # <<>> =>
                    /\ Len(w.header) = 4
                    /\ w.len <= sent.mtu - 4
                    /\ (k < Len(statusWrites) \/ w.header[1] + 1 < w.header[2]) =>
                          w.len = sent.mtu - 4

\* a payload went out as three fragments, the first two full and the last
\* one shorter
C32_Witness ==
    /\ blePc = "idle"
    /\ lastBle = "sendStatus"
    /\ Len(statusWrites) = 3
    /\ \A k \in 1..3 : Len(statusWrites[k].header) = 4
    /\ statusWrites[1].len = sent.mtu - 4
    /\ statusWrites[2].len = sent.mtu - 4
    /\ statusWrites[3].len > 0
    /\ statusWrites[3].len < sent.mtu - 4


\* C38: while the BLE link is not initialized or not connected, sendStatus,
\* broadcastStatus and sendCalibrationData write nothing to any
\* characteristic and change no state of the controller (effectiveMTU,
\* negotiatedMTU and connected among it), whatever the payload.
C38_NothingSentWhileDown ==
    [][ ( /\ lastBle' \in {"sendStatus", "broadcastStatus", "sendCalibrationData"}
          /\ blePc = "idle"
          /\ ~(bleInitialized /\ connected) ) =>
           /\ calibrationWrite' = <<>>
           /\ statusWrites' = IF lastBle' = "sendStatus" THEN <<>> ELSE statusWrites
           /\ effectiveMTU' = effectiveMTU
           /\ negotiatedMTU' = negotiatedMTU
           /\ connected' = connected
           /\ <<bleInitialized, advertising, navigationCallback, waypointCallback, blePc,
                totalFragments, seq, lastStatusJson>>' =
              <<bleInitialized, advertising, navigationCallback, waypointCallback, blePc,
                totalFragments, seq, lastStatusJson>> ]_vars

\* broadcastStatus was called after the central, which had been sent a status,
\* disconnected
C38_Witness ==
    /\ lastBle = "broadcastStatus"
    /\ bleInitialized
    /\ ~connected
    /\ effectiveMTU = 20
    /\ lastStatusJson # Str(<<>>)
    /\ calibrationWrite = <<>>


\* the HIGH holds of a signal, in order
HighHolds(signal) == SelectSeq(signal, LAMBDA h : h[1] = "HIGH")

\* the data bits of a signal of one frame: its HIGH holds after the sync pulse,
\* a long one being a 1
DataBitsOf(signal, long) ==
    [k \in 1..(Len(HighHolds(signal)) - 1) |->
        IF HighHolds(signal)[k + 1][2] = long THEN 1 ELSE 0]

\* the long pulse of the transmitter of this sketch
LongPulse ==
    IF driver = "DeviceRFController" THEN LONG_PULSE_HIGH_US
    ELSE IF driver = "WatersnakeRFController" THEN WS_LONG_PULSE_US
    ELSE TT_LONG_PULSE

\* C34: for RIGHT and for LEFT, the data bits of a frame sent by
\* transmitter_test's sendCode, by GPS_directions' transmitCode and by Helm's
\* transmit90BitCommand are the same sequence, of the same length: whichever
\* of them sent one frame, its data bits are those of GPS_directions' frame
\* and those of transmitter_test's frame.
C34_SameBitsFromEveryTransmitter ==
    ( /\ driver \in {"DeviceRFController", "WatersnakeRFController", "transmitter_test"}
      /\ pc = "idle"
      /\ call.ran
      /\ call.n = 1 ) =>
        /\ DataBitsOf(emitted, LongPulse) =
              DataBitsOf(WsTransmitCode(IF call.cmd = "RIGHT" THEN WS_RIGHT_CODE_HIGH
                                                              ELSE WS_LEFT_CODE_HIGH,
                                        IF call.cmd = "RIGHT" THEN WS_RIGHT_CODE_LOW
                                                              ELSE WS_LEFT_CODE_LOW),
                         WS_LONG_PULSE_US)
        /\ DataBitsOf(emitted, LongPulse) =
              DataBitsOf(TtSendCode(IF call.cmd = "RIGHT" THEN TT_RIGHT_CODE
                                                          ELSE TT_LEFT_CODE),
                         TT_LONG_PULSE)


\* C39: DeviceRFController::begin() always terminates, whatever the radio's
\* registers read back: a begin() that waits for the mode-ready flag
\* eventually returns.
C39_BeginTerminates == (pc = "waitready") ~> (pc = "idle")


\* C40: in the burst-pattern RfController the left and right commands are
\* distinguishable on the air: the op-mode writes and delays that
\* transmitLeftButton() makes differ from those that transmitRightButton()
\* made just before it.
C40_LeftDiffersFromRight ==
    [][ ( /\ driver = "RfController"
          /\ call.ran /\ call.cmd = "RIGHT"
          /\ call'.ran /\ call'.cmd = "LEFT" ) => emitted' # emitted ]_vars

=============================================================================
